---- MODULE Spec2Model ----
(***************************************************************************)
(* Model of the search-space engine of the time-synchronous beam-search    *)
(* decoder (Search/AdvancedTreeSearch/SearchSpace.cc): hypothesis arena,   *)
(* HMM expansion, pruning, word-end recombination and sentence-end         *)
(* selection.  Scores are integers; Core::Type<Score>::max is ScoreMax.    *)
(* Indices into the hypothesis arrays are 0-based as in the source, so     *)
(* element i of a C++ vector is element i+1 of the TLA+ sequence.          *)
(***************************************************************************)
EXTENDS Integers, Sequences, FiniteSets, TLC

\* ------------------------------------------------------------------ bounds
MaxFrames == 3

\* activation calls made for one instance
MaxCalls == 3
MaxBeamHyps == 3
MaxWordEnds == 3

\* --------------------------------------------------------- program constants
ScoreMax == 1000
U32Wrap == 1073741824
InvalidU32 == 1073741823

\* ------------------------------------------------------------ sequencing
\* The element of a one-element set.  { e : x \in {v} } is e with x bound
\* to the value v, so a result that later steps read more than once is
\* computed once, and the steps of a handler happen in the order of the
\* source.
The(S) == CHOOSE r \in S : TRUE

\* for (k = from; k <= to; ++k) a = Step(a, k)
RECURSIVE Rounds(_, _, _, _)
Rounds(Step(_, _), a, from, to) ==
  IF from > to THEN a
  ELSE IF from = to THEN Step(a, from)
  ELSE The({ Rounds(Step, a1, ((from + to) \div 2) + 1, to) :
             a1 \in {Rounds(Step, a, from, (from + to) \div 2)} })

\* ------------------------------------------------------- compiled network
\* A small prefix tree: root 1, coarticulated root 5, word-end state 4.
\* The states 6 .. 12 are a branch that no root of the modelled lexicon
\* enters; it holds the successor shapes the first branch lacks: a single
\* successor with a contiguous second-order batch (6), a contiguous batch
\* with an irregular second order (7), an irregular list with a contiguous
\* second order (8). State 13 enters the branch at 8 and 9; it has no
\* forward transition, and its second order is irregular. The states 14
\* and 15 are the fan-out of a pushed word end: 14 is the pushed
\* coarticulated root, hmmLength_ states before state 16, which enters the
\* first branch as the root does.
StateCount == 17

States == 1 .. (StateCount - 1)

rootState == 1

ciRootState == 1

coarticulatedRootStates == {5, 14}

\* the roots of the second branch
unpushedCoarticulatedRootStates == {6, 13}

Successors(s) ==
  CASE s = 1 -> <<2, 3>>
    [] s = 2 -> <<4>>
    [] s = 3 -> <<4>>
    [] s = 5 -> <<2, 4>>
    [] s = 6 -> <<7>>
    [] s = 7 -> <<8, 9>>
    [] s = 8 -> <<10, 12>>
    [] s = 9 -> <<11>>
    [] s = 10 -> <<11>>
    [] s = 13 -> <<8, 9>>
    [] s = 14 -> <<15>>
    [] s = 15 -> <<16>>
    [] s = 16 -> <<2, 3>>
    [] OTHER -> <<>>

\* transition model of a state: loop, forward, skip and exit penalties
transitionModel(s) ==
  CASE s = 1 -> [loop |-> ScoreMax, forward |-> 0, skip |-> 2, exit |-> 0]
    [] s = 5 -> [loop |-> ScoreMax, forward |-> 1, skip |-> 2, exit |-> 0]
    [] s = 4 -> [loop |-> 1, forward |-> ScoreMax, skip |-> ScoreMax, exit |-> 1]
    [] s = 7 -> [loop |-> 1, forward |-> 3, skip |-> 1, exit |-> 0]
    [] s = 13 -> [loop |-> 1, forward |-> ScoreMax, skip |-> 1, exit |-> 0]
    [] OTHER -> [loop |-> 1, forward |-> 0, skip |-> 3, exit |-> 0]

\* state.successors & SingleSuccessorBatchMask: exactly one follower state
IsSingleSuccessor(s) == Len(Successors(s)) = 1

\* batchSuccessorsSimple: the successor ids as a contiguous range
\* <<first, end>>, or first = -1 when the list is irregular
batchSuccessorsSimple(s) ==
  LET succ == Successors(s) IN
  IF succ = <<>> THEN <<0, 0>>
  ELSE IF \A i \in 1 .. Len(succ) : succ[i] = succ[1] + (i - 1)
       THEN <<succ[1], succ[1] + Len(succ)>>
       ELSE <<-1, 1>>

RECURSIVE FlattenSeq(_)
FlattenSeq(ss) ==
  IF ss = <<>> THEN <<>> ELSE Head(ss) \o FlattenSeq(Tail(ss))

RECURSIVE SecondOrderScan(_, _)
SecondOrderScan(ts, acc) ==
  IF ts = <<>> THEN acc
  ELSE The({ SecondOrderScan(Tail(ts), nxt) :
             nxt \in { IF acc.first = -1
                         THEN [acc EXCEPT !.first = t, !.end = t + 1]
                       ELSE IF acc.end = t
                         THEN [acc EXCEPT !.end = acc.end + 1]
                       ELSE IF acc.first = t + 1
                         THEN [acc EXCEPT !.first = acc.first - 1]
                       ELSE [acc EXCEPT !.continuous = FALSE] :
                       t \in {Head(ts)} } })

\* Core::Type<int>::min and Core::Type<int>::max as state depths
DepthMin == -1

DepthMax == 99

\* number of HMM states of a phoneme
hmmLength_ == 2

\* fillStateDepths on the pairs <<state, depth>> of todo in depth-first
\* order: a state takes the depth unless it has that depth or a larger one
RECURSIVE fillStateDepths(_, _)
fillStateDepths(depths, todo) ==
  IF todo = <<>> THEN depths
  ELSE The({ IF depths[state] # DepthMin /\ depth <= depths[state]
               THEN fillStateDepths(depths, Tail(todo))
               ELSE fillStateDepths([depths EXCEPT ![state] = depth],
                      [i \in 1 .. Len(Successors(state)) |->
                         <<Successors(state)[i], depth + 1>>] \o Tail(todo)) :
             state \in {Head(todo)[1]}, depth \in {Head(todo)[2]} })

\* the smallest depth of a successor that has one, less one
RECURSIVE findStateDepth(_, _)
findStateDepth(depths, state) ==
  IF depths[state] # DepthMin THEN depths[state]
  ELSE LET ds == {findStateDepth(depths, Successors(state)[i]) :
                    i \in 1 .. Len(Successors(state))} \ {DepthMax}
       IN IF ds = {} THEN DepthMax
          ELSE (CHOOSE d \in ds : \A o \in ds : d <= o) - 1

\* fillStateDepths of the coarticulated roots in the order of their ids,
\* each at the depth findStateDepth gives it
RECURSIVE FillCoarticulatedRoots(_, _)
FillCoarticulatedRoots(depths, roots) ==
  IF roots = {} THEN depths
  ELSE The({ FillCoarticulatedRoots(
               IF found < 0
                 THEN fillStateDepths(
                        [s \in DOMAIN depths |->
                           IF depths[s] # DepthMin THEN depths[s] - found
                           ELSE depths[s]], <<<<root, 0>>>>)
               ELSE IF found = DepthMax
                 THEN fillStateDepths(depths, <<<<root, 0>>>>)
               ELSE fillStateDepths(depths, <<<<root, found>>>>),
               roots \ {root}) :
             found \in {findStateDepth(depths,
                          CHOOSE r \in roots : \A o \in roots : r <= o)},
             root \in {CHOOSE r \in roots : \A o \in roots : r <= o} })

RECURSIVE SetToSeq(_)
SetToSeq(set) ==
  IF set = {} THEN <<>>
  ELSE LET least == CHOOSE r \in set : \A o \in set : r <= o
       IN <<least>> \o SetToSeq(set \ {least})

\* stateDepths_ after buildDepths(false)
stateDepths_ ==
  FillCoarticulatedRoots(
    fillStateDepths([s \in States |-> DepthMin],
      <<<<rootState, 0>>, <<ciRootState, 0>>>>
        \o [i \in 1 .. Cardinality(unpushedCoarticulatedRootStates) |->
              <<SetToSeq(unpushedCoarticulatedRootStates)[i], 0>>]),
    coarticulatedRootStates)

ForbidSecondOrderExpansion == 1

\* builds the batches as without symmetrize-penalties
initializeSecondOrderBatchPlain(symmetrize, s) ==
  The({ IF r.continuous
          THEN IF r.first = -1 THEN <<InvalidU32, InvalidU32>>
               ELSE <<r.first, r.end>>
          ELSE <<0, 0>> :
        r \in { SecondOrderScan(second,
                  [first |-> -1, end |-> -1, continuous |-> TRUE]) :
                second \in {FlattenSeq([i \in 1 .. Len(Successors(s)) |->
                                          Successors(Successors(s)[i])])} } })

\* secondOrderEdgeSuccessorBatches_[2*s], [2*s+1] as initializeSearchNetwork
\* builds them; -1 stored in a u32 is InvalidU32
initializeSecondOrderBatch(symmetrize, s) ==
  IF symmetrize /\ (stateDepths_[s] = stateDepths_[rootState]
                      \/ stateDepths_[s] = stateDepths_[rootState] + hmmLength_)
    THEN <<ForbidSecondOrderExpansion, ForbidSecondOrderExpansion>> ELSE
  The({ IF r.continuous
          THEN IF r.first = -1 THEN <<InvalidU32, InvalidU32>>
               ELSE <<r.first, r.end>>
          ELSE <<0, 0>> :
        r \in { SecondOrderScan(second,
                  [first |-> -1, end |-> -1, continuous |-> TRUE]) :
                second \in {FlattenSeq([i \in 1 .. Len(Successors(s)) |->
                                          Successors(Successors(s)[i])])} } })

\* Bliss::Phoneme::term
term == 0

\* network_.rootTransitDescriptions: the coarticulation pair of a root state
rootTransitDescriptions ==
  [s \in {rootState} \cup coarticulatedRootStates |->
     CASE s = rootState -> <<term, term>>
       [] s = 5 -> <<7, 8>>
       [] OTHER -> <<8, 7>>]

\* ------------------------------------------------ lexicon and language model
\* network_.exits: pronunciation and transit (root) state of each label;
\* the labels 0 .. 3 sit on state 4 and are numbered contiguously, label 5
\* is the only label of state 11, the labels 4 and 6 sit on state 12.
\* The label 8 of state 10 leads to the root 13. The roots 5, 13 and 14
\* carry the labels of words without phonemes: one label on 5, the labels
\* 9 and 11 on 13, the contiguous labels 12 and 13 on 14; the label 11 has
\* no pronunciation
Exits == 0 .. 13

exits(e) ==
  CASE e = 0 -> [pronunciation |-> 1, transitState |-> 1]
    [] e = 1 -> [pronunciation |-> 2, transitState |-> 1]
    [] e = 2 -> [pronunciation |-> 3, transitState |-> 1]
    [] e = 3 -> [pronunciation |-> 4, transitState |-> 5]
    [] e = 4 -> [pronunciation |-> 5, transitState |-> 14]
    [] e = 5 -> [pronunciation |-> 6, transitState |-> 1]
    [] e = 7 -> [pronunciation |-> 1, transitState |-> 1]
    [] e = 8 -> [pronunciation |-> 2, transitState |-> 13]
    [] e = 9 -> [pronunciation |-> 1, transitState |-> 1]
    [] e = 11 -> [pronunciation |-> 0, transitState |-> 1]
    [] e = 12 -> [pronunciation |-> 2, transitState |-> 5]
    [] e = 13 -> [pronunciation |-> 3, transitState |-> 1]
    [] OTHER -> [pronunciation |-> 7, transitState |-> 5]

\* the labels of a state in iteration order
StateLabels(s) ==
  CASE s = 4 -> <<0, 1, 2, 3>>
    [] s = 5 -> <<7>>
    [] s = 10 -> <<8>>
    [] s = 11 -> <<5>>
    [] s = 12 -> <<4, 6>>
    [] s = 13 -> <<9, 11>>
    [] s = 14 -> <<12, 13>>
    [] OTHER -> <<>>

\* the label loop of initializeSearchNetwork for one state:
\* x = [currentExit, continuous, single, had]
RECURSIVE LabelScan(_, _)
LabelScan(x, labels) ==
  IF labels = <<>> THEN x
  ELSE The({ LabelScan(
               [currentExit |-> IF x.currentExit = l THEN x.currentExit + 1
                                ELSE l + 1,
                continuous |-> x.continuous /\ x.currentExit = l,
                single |-> IF x.had THEN InvalidU32 ELSE l,
                had |-> TRUE],
               Tail(labels)) :
             l \in {Head(labels)} })

\* what initializeSearchNetwork appends for state a to singleLabels_,
\* quickLabelBatches_ and slowLabelBatches_; n = [currentExit, single,
\* quick, slow], the sequences hold index i at position i + 1
EncodeLabels(n, a) ==
  The({ [currentExit |-> x.currentExit,
         single |-> Append(n.single,
                      IF ~x.had THEN -1
                      ELSE IF x.single # InvalidU32 THEN x.single
                      ELSE IF x.continuous THEN -2
                      ELSE -(3 + Len(n.slow))),
         quick |-> Append(n.quick, x.currentExit),
         slow |-> IF x.had /\ x.single = InvalidU32 /\ ~x.continuous
                    THEN n.slow \o StateLabels(a) \o <<-1>>
                    ELSE n.slow] :
        x \in {LabelScan([currentExit |-> n.currentExit, continuous |-> TRUE,
                          single |-> InvalidU32, had |-> FALSE],
                         StateLabels(a))} })

LabelEncoding ==
  Rounds(EncodeLabels,
         [currentExit |-> 0, single |-> <<0>>, quick |-> <<0, 0>>,
          slow |-> <<>>],
         1, StateCount - 1)

singleLabels_ == LabelEncoding.single

quickLabelBatches_ == LabelEncoding.quick

slowLabelBatches_ == LabelEncoding.slow

\* the entries of slowLabelBatches_ from index current up to the -1
RECURSIVE SlowBatch(_)
SlowBatch(current) ==
  IF slowLabelBatches_[current + 1] = -1 THEN <<>>
  ELSE <<slowLabelBatches_[current + 1]>> \o SlowBatch(current + 1)

\* the exits findWordEnds visits for a state and the loop that visits them
ExitLoop(state) ==
  LET exit == singleLabels_[state + 1] IN
  IF exit = -1 THEN [loop |-> "none", exits |-> <<>>]
  ELSE IF exit >= 0 THEN [loop |-> "single", exits |-> <<exit>>]
  ELSE IF exit = -2
    THEN [loop |-> "quick",
          exits |-> [i \in 1 .. (quickLabelBatches_[state + 2]
                                  - quickLabelBatches_[state + 1]) |->
                       quickLabelBatches_[state + 1] + i - 1]]
  ELSE [loop |-> "slow", exits |-> SlowBatch(-(exit + 3))]

\* lemma (syntactic token) of a pronunciation: 1 and 2 are variants of
\* word 1, 3, 4 and 5 are variants of word 2, 6 and 7 are variants of
\* word 3
Lemma(pron) == IF pron >= 6 THEN 3 ELSE IF pron >= 3 THEN 2 ELSE 1

MaxHistoryLength == 2

\* Lm::History: the last MaxHistoryLength words
extendedHistory(h, w) ==
  LET e == Append(h, w) IN
  IF Len(e) > MaxHistoryLength THEN SubSeq(e, Len(e) - MaxHistoryLength + 1, Len(e))
  ELSE e

historyLenght(h) == Len(h)

\* BackingOffLm::reducedHistory(h, n): the last n words of h
reducedHistory(h, n) ==
  IF Len(h) > n THEN SubSeq(h, Len(h) - n + 1, Len(h)) ELSE h

startHistory == <<>>

unigramHistory == reducedHistory(startHistory, 0)

\* the LM score difference above which the loop over a slow label batch
\* drops a word end
ImplausibleLmScore == 100

\* scaled LM score of a word after a history; word 3 is a word the
\* language model has no estimate for
LemmaScore(h, w) ==
  IF w = 3 THEN ImplausibleLmScore + 50
  ELSE IF h # <<>> /\ h[Len(h)] = w THEN 2 ELSE 1

\* scaled LM score of a pronunciation after a history
LmScore(h, pron) == LemmaScore(h, Lemma(pron))

\* Lm::addLemmaScore over a lemma sequence: hs = [history, lm]
RECURSIVE addLemmaScores(_, _)
addLemmaScores(hs, lemmas) ==
  IF lemmas = <<>> THEN hs
  ELSE addLemmaScores(
         [history |-> extendedHistory(hs.history, Head(lemmas)),
          lm |-> hs.lm + LemmaScore(hs.history, Head(lemmas))],
         Tail(lemmas))

sentenceEndScore(h) ==
  CASE h = <<>> -> 2
    [] h = <<1>> -> 3
    [] h = <<2>> -> 1
    [] h = <<2, 1>> -> 4
    [] OTHER -> 3

BackOffScore(h) == Len(h)

\* LM lookahead table of a history: the best word score behind any state
LookaheadScore(h, s) ==
  IF LmScore(h, 1) < LmScore(h, 3) THEN LmScore(h, 1) ELSE LmScore(h, 3)

\* states that have an entry in the sparse table of a history
SparseContains(h, s) ==
  IF Len(h) = 0 THEN TRUE
  ELSE IF Len(h) = 1 THEN s \in {2, 4}
  ELSE s = 2

\* acoustic scores of one time frame, by state (mixture)
AcousticFrames ==
  { [s \in States |-> 0],
    [s \in States |-> IF s = 2 THEN 1 ELSE 0] }

\* ------------------------------------------------------------ configuration
\* pruning settings: beam, histogram limit, LM-state beam, early beam,
\* instance-deletion-latency
PruningSettings ==
  [ earlyBeamPruning : BOOLEAN,
    acousticPruning : {2, 30},
    acousticPruningLimit : {1, 50},
    lmStatePruning : {1, ScoreMax},
    instanceDeletionLatency : {0, 1} ]

\* lookahead settings: mode and the state minimum for full-order tables
LookaheadSettings ==
  [ lookahead : {"none", "standard", "sparse", "sparse-early"},
    fullLookAheadStateMinimum : {0, 3, 4} ]

\* lattice creation, skip transitions, network word-end states, the
\* states a prefix filter admits (no filter when empty), and the weight of
\* the acoustic score in the prospect
OtherSettings ==
  [ allowSkips : BOOLEAN,
    shallCreateLattice : BOOLEAN,
    uncoarticulatedWordEndStates : {{}, {4}},
    prefixFilter : {{}, {1, 2, 4, 5}, {4}},
    acousticProspectFactor : {1, 2} ]

Configuration(p, l, o) ==
  [ allowSkips |-> o.allowSkips,
    earlyBeamPruning |-> p.earlyBeamPruning,
    acousticPruning |-> p.acousticPruning,
    acousticPruningLimit |-> p.acousticPruningLimit,
    lmStatePruning |-> p.lmStatePruning,
    lookahead |-> l.lookahead,
    fullLookAheadStateMinimum |-> l.fullLookAheadStateMinimum,
    instanceDeletionLatency |-> p.instanceDeletionLatency,
    shallCreateLattice |-> o.shallCreateLattice,
    uncoarticulatedWordEndStates |-> o.uncoarticulatedWordEndStates,
    prefixFilter |-> o.prefixFilter,
    acousticProspectFactor |-> o.acousticProspectFactor,
    histogramPruningIsMasterPruning |-> FALSE,
    symmetrizePenalties |-> FALSE,
    earlyWordEndPruning |-> TRUE,
    wordEndPruning |-> ScoreMax,
    wordEndPruningLimit |-> ScoreMax,
    wordEndPhonemePruningThreshold |-> ScoreMax,
    correctPushedBoundaryTimes |-> FALSE,
    correctPushedAcousticScores |-> FALSE ]

DefaultPruning ==
  [ earlyBeamPruning |-> FALSE, acousticPruning |-> 30,
    acousticPruningLimit |-> 50, lmStatePruning |-> ScoreMax,
    instanceDeletionLatency |-> 0 ]

DefaultLookahead == [ lookahead |-> "standard", fullLookAheadStateMinimum |-> 0 ]

DefaultOther ==
  [ allowSkips |-> TRUE, shallCreateLattice |-> TRUE,
    uncoarticulatedWordEndStates |-> {}, prefixFilter |-> {},
    acousticProspectFactor |-> 1 ]

Configurations ==
  { Configuration(p, l, DefaultOther) :
      p \in PruningSettings, l \in LookaheadSettings }
  \cup { Configuration(DefaultPruning, DefaultLookahead, o) : o \in OtherSettings }
  \cup { Configuration(p, DefaultLookahead,
                       [DefaultOther EXCEPT !.prefixFilter = {1, 2, 4, 5}]) :
           p \in PruningSettings }

\* what the caller sets before asking for the sentence end
RecognitionContexts ==
  [ finalCoarticulation : {<<term, term>>, <<7, 8>>}, suffix : {<<>>, <<1>>} ]

\* ------------------------------------------------------------------- state
VARIABLES
  cfg,
  timeFrame_,
  scorer_,
  stateHypotheses,
  newStateHypotheses,
  stateHypothesisRecombinationArray,
  currentTreeFirstNewStateHypothesis,
  activeInstances,
  instances,
  activeInstanceMap,
  instanceCount,
  lookaheadCache,
  currentLookaheadInstanceStateThreshold_,
  earlyWordEndHypotheses,
  wordEndHypotheses,
  traces,
  traceItems,
  bestProspect_,
  bestScore_,
  minWordEndScore_,
  globalScoreOffset_,
  hadWordEnd_,
  histogramPruned,
  sentenceEnd,
  passRanges,
  stepOrder,
  emptyFrames,
  recombineInput,
  incoming,
  beamRun,
  expandRun,
  lookaheadRun,
  pruningRun,
  rootRun,
  cacheMap,
  current_time_,
  scoreRun,
  failed,
  pc

arenaVars == <<stateHypotheses, newStateHypotheses,
               stateHypothesisRecombinationArray,
               currentTreeFirstNewStateHypothesis>>

instanceVars == <<activeInstances, instances, activeInstanceMap, instanceCount,
                  lookaheadCache, currentLookaheadInstanceStateThreshold_>>

wordEndVars == <<earlyWordEndHypotheses, wordEndHypotheses, minWordEndScore_>>

traceVars == <<traces, traceItems>>

scoreVars == <<bestProspect_, bestScore_, globalScoreOffset_>>

resultVars == <<hadWordEnd_, histogramPruned, sentenceEnd>>

\* the language model: its caches by history, its time frame and, when its
\* last call was one of score, the arguments and the result of that call
lmVars == <<cacheMap, current_time_, scoreRun>>

\* observations kept for the properties: the instance ranges after each
\* pruning pass, the steps of the last pruneAndAddScores in the order they
\* ran, by instance the number of frames in a row that ended with an empty
\* range, the input of the last word-end recombination, the inputs of the
\* activation calls of the current instance, the two results of a beam
\* comparison, the two results of an expansion comparison, by instance the
\* hypotheses before and after the lookahead of the last expandHmm, the
\* arguments and the result of the last relaxPruning or the hypotheses and
\* instances before and after the last pruneStatesPerLmState, the network, the
\* argument and the result of a root lookup, the language model
ghostVars == <<passRanges, stepOrder, emptyFrames, recombineInput, incoming,
               beamRun, expandRun, lookaheadRun, pruningRun, rootRun,
               lmVars>>

vars == <<cfg, timeFrame_, scorer_, arenaVars, instanceVars, wordEndVars,
          traceVars, scoreVars, resultVars, ghostVars, failed, pc>>

\* a search space without a recurrent language model
NoLanguageModel ==
  /\ cacheMap = <<>>
  /\ current_time_ = 0
  /\ scoreRun = [call |-> "none"]

\* secondOrderEdgeSuccessorBatches_[2*s], [2*s+1]
secondOrderEdgeSuccessorBatches(s) ==
  initializeSecondOrderBatch(cfg.symmetrizePenalties, s)

\* ------------------------------------------------------- hypothesis arena
StateHypothesis(state, trace, score) ==
  [state |-> state, score |-> score, prospect |-> score, trace |-> trace]

\* trusts any slot below the end of the array, also one of another instance
SlotAbsentNoWindow(ar, first, s) ==
  LET r == ar.rec[s] IN
  \/ r >= Len(ar.nsh)
  \/ ar.nsh[r + 1].state # s

\* the slot of state s does not point at a hypothesis of s in the window
\* [first, newStateHypotheses.size())
SlotAbsent(ar, first, s) ==
  LET r == ar.rec[s] IN
  \/ r < first
  \/ r >= Len(ar.nsh)
  \/ ar.nsh[r + 1].state # s

\* keeps the stored hypothesis when the incoming score is equal
UpdateExistingStrict(ar, r, score, trace) ==
  IF ar.nsh[r + 1].score > score
    THEN [ar EXCEPT !.nsh[r + 1].score = score, !.nsh[r + 1].trace = trace]
    ELSE ar

UpdateExisting(ar, r, score, trace) ==
  IF ar.nsh[r + 1].score >= score
    THEN [ar EXCEPT !.nsh[r + 1].score = score, !.nsh[r + 1].trace = trace]
    ELSE ar

activateOrUpdateStateHypothesisLoop(ar, first, hyp, score) ==
  IF SlotAbsent(ar, first, hyp.state)
    THEN [nsh |-> Append(ar.nsh, [hyp EXCEPT !.score = score]),
          rec |-> [ar.rec EXCEPT ![hyp.state] = Len(ar.nsh)]]
    ELSE UpdateExisting(ar, ar.rec[hyp.state], score, hyp.trace)

\* takes the trace of every arrival, also of one with a higher score
activateOrUpdateStateHypothesisTransitionTrace(ar, first, hyp, score, successorState) ==
  IF SlotAbsent(ar, first, successorState)
    THEN [nsh |-> Append(ar.nsh, [hyp EXCEPT !.score = score,
                                              !.state = successorState]),
          rec |-> [ar.rec EXCEPT ![successorState] = Len(ar.nsh)]]
    ELSE [UpdateExisting(ar, ar.rec[successorState], score, hyp.trace)
            EXCEPT !.nsh[ar.rec[successorState] + 1].trace = hyp.trace]

activateOrUpdateStateHypothesisTransition(ar, first, hyp, score, successorState) ==
  IF SlotAbsent(ar, first, successorState)
    THEN [nsh |-> Append(ar.nsh, [hyp EXCEPT !.score = score,
                                              !.state = successorState]),
          rec |-> [ar.rec EXCEPT ![successorState] = Len(ar.nsh)]]
    ELSE UpdateExisting(ar, ar.rec[successorState], score, hyp.trace)

activateOrUpdateStateHypothesisDirectly(ar, first, hyp) ==
  IF SlotAbsent(ar, first, hyp.state)
    THEN [nsh |-> Append(ar.nsh, hyp),
          rec |-> [ar.rec EXCEPT ![hyp.state] = Len(ar.nsh)]]
    ELSE UpdateExisting(ar, ar.rec[hyp.state], hyp.score, hyp.trace)

\* the ids first .. end-1 in iteration order
RangeSeq(first, end) ==
  IF end > first THEN [i \in 1 .. (end - first) |-> first + (i - 1)] ELSE <<>>

RECURSIVE ActivateAll(_, _, _, _, _)
ActivateAll(ar, first, hyp, score, targets) ==
  IF targets = <<>> THEN ar
  ELSE The({ ActivateAll(a1, first, hyp, score, Tail(targets)) :
             a1 \in {activateOrUpdateStateHypothesisTransition(
                       ar, first, hyp, score, Head(targets))} })

\* second-order followers of one successor as the slow expansion walks them
SkipSuccessorsOf(successor, batched) ==
  LET b == batchSuccessorsSimple(successor) IN
  IF batched /\ b[1] # -1 THEN RangeSeq(b[1], b[2]) ELSE Successors(successor)

\* the successor loop of expandStateSlow: for each successor the forward
\* transition, then the skips behind it
RECURSIVE SlowSuccessorLoop(_, _, _, _, _, _, _, _, _)
SlowSuccessorLoop(ar, first, hyp, succs, batched, expandForward, doSkip, forwardScore, skipScore) ==
  IF succs = <<>> THEN ar
  ELSE The({ SlowSuccessorLoop(a2, first, hyp, Tail(succs), batched,
                               expandForward, doSkip, forwardScore, skipScore) :
             a2 \in { IF doSkip
                        THEN ActivateAll(a1, first, hyp, skipScore,
                                         SkipSuccessorsOf(Head(succs), batched))
                        ELSE a1 :
                      a1 \in { IF expandForward
                                 THEN activateOrUpdateStateHypothesisTransition(
                                        ar, first, hyp, forwardScore, Head(succs))
                                 ELSE ar } } })

expandStateSlow(ar, first, hyp, expandForward, expandSkip) ==
  LET tdp == transitionModel(hyp.state)
      skipScore == hyp.score + tdp.skip
      doSkip0 == expandSkip /\ skipScore < ScoreMax
      forwardScore == hyp.score + tdp.forward
  IN The({ LET useSecond == doSkip0 /\ second[1] # 0
               doSkip == doSkip0 /\ ~useSecond
           IN The({ IF forwardScore < ScoreMax
                      THEN IF successors[1] # -1
                             THEN SlowSuccessorLoop(a1, first, hyp,
                                    RangeSeq(successors[1], successors[2]), TRUE,
                                    expandForward, expandSkip /\ doSkip,
                                    forwardScore, skipScore)
                             ELSE SlowSuccessorLoop(a1, first, hyp,
                                    Successors(hyp.state), FALSE,
                                    expandForward, expandSkip /\ doSkip,
                                    forwardScore, skipScore)
                      ELSE a1 :
                    a1 \in { IF useSecond
                               THEN ActivateAll(ar, first, hyp, skipScore,
                                                RangeSeq(second[1], second[2]))
                               ELSE ar } }) :
           second \in {secondOrderEdgeSuccessorBatches(hyp.state)},
           successors \in {batchSuccessorsSimple(hyp.state)} })

\* leaves the skip transitions out
expandStateSkipNone(ar, first, hyp) == ar

\* follows the second-order batch whatever the skip score is
expandStateSkipAnyScore(ar, first, hyp) ==
  LET skipScore == hyp.score + transitionModel(hyp.state).skip
  IN The({ IF second[1] # second[2]
             THEN ActivateAll(ar, first, hyp, skipScore,
                              RangeSeq(second[1], second[2]))
             ELSE IF second[1] = 0
                    THEN expandStateSlow(ar, first, hyp, FALSE, TRUE)
                    ELSE ar :
           second \in {secondOrderEdgeSuccessorBatches(hyp.state)} })

\* the skip part of expandState (lines after the forward transition)
expandStateSkip(ar, first, hyp) ==
  LET skipScore == hyp.score + transitionModel(hyp.state).skip
  IN The({ IF second[1] # second[2]
             THEN IF skipScore < ScoreMax
                    THEN ActivateAll(ar, first, hyp, skipScore,
                                     RangeSeq(second[1], second[2]))
                    ELSE ar
             ELSE IF second[1] = 0
                    THEN expandStateSlow(ar, first, hyp, FALSE, TRUE)
                    ELSE ar :
           second \in {secondOrderEdgeSuccessorBatches(hyp.state)} })

expandState(ar, first, hyp, allowSkip) ==
  LET tdp == transitionModel(hyp.state)
      loopScore == hyp.score + tdp.loop
      forwardScore == hyp.score + tdp.forward
  IN The({ IF IsSingleSuccessor(hyp.state)
             THEN The({ IF allowSkip THEN expandStateSkip(a2, first, hyp)
                        ELSE a2 :
                        a2 \in { IF forwardScore < ScoreMax
                                   THEN activateOrUpdateStateHypothesisTransition(
                                          a1, first, hyp, forwardScore,
                                          Successors(hyp.state)[1])
                                   ELSE a1 } })
           ELSE IF successors[1] = -1
             THEN expandStateSlow(a1, first, hyp, TRUE, allowSkip)
             ELSE The({ IF allowSkip THEN expandStateSkip(a2, first, hyp)
                        ELSE a2 :
                        a2 \in { IF forwardScore < ScoreMax
                                   THEN ActivateAll(a1, first, hyp, forwardScore,
                                          RangeSeq(successors[1], successors[2]))
                                   ELSE a1 } }) :
           a1 \in { IF loopScore < ScoreMax
                      THEN activateOrUpdateStateHypothesisLoop(ar, first, hyp,
                                                               loopScore)
                      ELSE ar },
           successors \in {batchSuccessorsSimple(hyp.state)} })

RECURSIVE ExpandAll(_, _, _, _)
ExpandAll(ar, first, hyps, allowSkip) ==
  IF hyps = <<>> THEN ar
  ELSE The({ ExpandAll(a1, first, Tail(hyps), allowSkip) :
             a1 \in { expandState(ar, first, hyp, allowSkip) :
                      hyp \in {Head(hyps)} } })

\* ---------------------------------------------------------------- instances
\* new Instance(key, backOffParent): empty state range, no lookahead table
NewInstance(key, parent) ==
  [key |-> key, lookAheadHistory |-> <<>>,
   states |-> [begin |-> 0, end |-> 0],
   rootStateHypotheses |-> <<>>, transfer |-> <<>>,
   backOffInstance |-> 0, backOffParent |-> parent,
   backOffScore |-> 0, totalBackOffOffset |-> 0,
   inactive |-> 0, lookahead |-> <<>>]

StatesEmpty(inst) == inst.states.begin = inst.states.end

StatesSize(inst) == inst.states.end - inst.states.begin

\* extend a function by one key
Put(f, k, v) ==
  The({ [x \in (DOMAIN g) \cup {k} |-> IF x = k THEN w ELSE g[x]] :
        g \in {f}, w \in {v} })

Remove(f, k) == The({ [x \in (DOMAIN g) \ {k} |-> g[x]] : g \in {f} })

lmLookaheadEnabled(c) == c.lookahead # "none"

sparseLookahead(c) == c.lookahead \in {"sparse", "sparse-early"}

earlyBackoff(c) == c.lookahead = "sparse-early"

\* gives the back-off instance a history that is two words shorter
getBackOffInstanceTwoOrders(c, w, id) ==
  LET inst == w.insts[id]
      useHistory == inst.lookAheadHistory
      nid == w.count + 1
  IN IF inst.backOffInstance # 0 \/ ~lmLookaheadEnabled(c) THEN w
     ELSE IF historyLenght(useHistory) = 0 THEN w
     ELSE [w EXCEPT
             !.count = nid,
             !.active = Append(w.active, nid),
             !.insts = Put([w.insts EXCEPT
                              ![id].backOffInstance = nid,
                              ![id].backOffScore = BackOffScore(useHistory)],
                           nid,
                           [NewInstance(inst.key, id) EXCEPT
                              !.lookAheadHistory =
                                 reducedHistory(useHistory,
                                   IF historyLenght(useHistory) >= 2
                                     THEN historyLenght(useHistory) - 2
                                     ELSE 0)])]

\* shares the back-off instance that another instance already has for the
\* same reduced history
getBackOffInstanceShared(c, w, id) ==
  LET inst == w.insts[id]
      useHistory == inst.lookAheadHistory
      length == historyLenght(useHistory)
      nid == w.count + 1
      shared == {b \in DOMAIN w.insts :
                   /\ w.insts[b].backOffParent # 0
                   /\ w.insts[b].lookAheadHistory =
                        reducedHistory(useHistory, length - 1)}
  IN IF inst.backOffInstance # 0 \/ ~lmLookaheadEnabled(c) THEN w
     ELSE IF length = 0 THEN w
     ELSE IF shared # {}
       THEN [w EXCEPT !.insts[id].backOffInstance =
                         CHOOSE b \in shared : \A o \in shared : b <= o,
                      !.insts[id].backOffScore = BackOffScore(useHistory)]
     ELSE [w EXCEPT
             !.count = nid,
             !.active = Append(w.active, nid),
             !.insts = Put([w.insts EXCEPT
                              ![id].backOffInstance = nid,
                              ![id].backOffScore = BackOffScore(useHistory)],
                           nid,
                           [NewInstance(inst.key, id) EXCEPT
                              !.lookAheadHistory =
                                 reducedHistory(useHistory, length - 1)])]

\* getBackOffInstance on the world w (instances, activeInstances, counter):
\* returns the changed world; the result is w.insts[id].backOffInstance
getBackOffInstance(c, w, id) ==
  LET inst == w.insts[id]
      useHistory == inst.lookAheadHistory
      length == historyLenght(useHistory)
      nid == w.count + 1
  IN IF inst.backOffInstance # 0 \/ ~lmLookaheadEnabled(c) THEN w
     ELSE IF length = 0 THEN w
     ELSE [w EXCEPT
             !.count = nid,
             !.active = Append(w.active, nid),
             !.insts = Put([w.insts EXCEPT
                              ![id].backOffInstance = nid,
                              ![id].backOffScore = BackOffScore(useHistory)],
                           nid,
                           [NewInstance(inst.key, id) EXCEPT
                              !.lookAheadHistory =
                                 reducedHistory(useHistory, length - 1)])]

\* activateLmLookahead: the instance takes over the back-off offset of its
\* back-off parent, then the lookahead table is looked up or computed
activateLmLookahead(c, w, id, compute) ==
  LET h == w.insts[id].lookAheadHistory
      parent == w.insts[id].backOffParent
  IN IF w.insts[id].lookahead # <<>> THEN w
     ELSE The({ IF compute
                  THEN IF h = unigramHistory
                         THEN [w1 EXCEPT !.insts[id].lookahead = <<unigramHistory>>]
                         ELSE [w1 EXCEPT !.insts[id].lookahead = <<h>>,
                                         !.cache = w1.cache \cup {h}]
                  ELSE IF h = unigramHistory
                         THEN [w1 EXCEPT !.insts[id].lookahead = <<unigramHistory>>]
                         ELSE IF h \in w1.cache
                           THEN [w1 EXCEPT !.insts[id].lookahead = <<h>>]
                           ELSE w1 :
                w1 \in { IF parent # 0
                           THEN [w EXCEPT !.insts[id].totalBackOffOffset =
                                   w.insts[parent].totalBackOffOffset
                                   + w.insts[parent].backOffScore]
                           ELSE w } })

RECURSIVE backOffChainStates(_, _)
backOffChainStates(insts, id) ==
  StatesSize(insts[id]) +
    (IF insts[id].backOffInstance # 0
       THEN backOffChainStates(insts, insts[id].backOffInstance) ELSE 0)

Min(a, b) == IF a < b THEN a ELSE b

Max(a, b) == IF a > b THEN a ELSE b

\* RecordMinimum::prepare
RecordMinimum(w, sh) ==
  [w EXCEPT !.bestProspect = Min(w.bestProspect, sh.prospect),
            !.bestScore = Min(w.bestScore, sh.score)]

RECURSIVE PrepareRange(_, _, _)
PrepareRange(w, i, end) ==
  IF i >= end THEN w
  ELSE The({ PrepareRange(w1, i + 1, end) :
             w1 \in {RecordMinimum(w, w.nsh[i + 1])} })

RECURSIVE StandardLookaheadLoop(_, _, _, _)
StandardLookaheadLoop(w, h, i, end) ==
  IF i >= end THEN w
  ELSE The({ StandardLookaheadLoop(w2, h, i + 1, end) :
             w2 \in { RecordMinimum(w1, w1.nsh[i + 1]) :
                      w1 \in {[w EXCEPT !.nsh[i + 1].prospect =
                                 w.nsh[i + 1].score
                                   + LookaheadScore(h, w.nsh[i + 1].state)]} } })

\* leaves the prospect of a hypothesis whose lookup failed as it was
RECURSIVE SparseLookaheadLoopKeepProspect(_, _, _, _, _, _)
SparseLookaheadLoopKeepProspect(c, w, id, h, i, end) ==
  IF i >= end THEN w
  ELSE LET sh == w.nsh[i + 1]
           back == w.insts[id].backOffInstance
           offset == w.insts[id].backOffScore
       IN The({ SparseLookaheadLoopKeepProspect(c, w1, id, h, i + 1, end) :
                w1 \in { IF ~SparseContains(h, sh.state)
                           THEN IF earlyBackoff(c)
                                  THEN [w EXCEPT !.nsh[i + 1].score = ScoreMax]
                                  ELSE [w EXCEPT !.nsh[i + 1].score = sh.score + offset,
                                                 !.insts[back].transfer =
                                                    Append(w.insts[back].transfer, i)]
                           ELSE RecordMinimum(
                                  [w EXCEPT !.nsh[i + 1].prospect =
                                       sh.score + LookaheadScore(h, sh.state)],
                                  [sh EXCEPT !.prospect =
                                       sh.score + LookaheadScore(h, sh.state)]) } })

\* queues a hypothesis whose lookup failed with the score it had
RECURSIVE SparseLookaheadLoopNoOffset(_, _, _, _, _, _)
SparseLookaheadLoopNoOffset(c, w, id, h, i, end) ==
  IF i >= end THEN w
  ELSE LET sh == w.nsh[i + 1]
           back == w.insts[id].backOffInstance
       IN The({ SparseLookaheadLoopNoOffset(c, w1, id, h, i + 1, end) :
                w1 \in { IF ~SparseContains(h, sh.state)
                           THEN IF earlyBackoff(c)
                                  THEN [w EXCEPT !.nsh[i + 1].prospect = ScoreMax,
                                                 !.nsh[i + 1].score = ScoreMax]
                                  ELSE [w EXCEPT !.nsh[i + 1].prospect = ScoreMax,
                                                 !.insts[back].transfer =
                                                    Append(w.insts[back].transfer, i)]
                           ELSE RecordMinimum(
                                  [w EXCEPT !.nsh[i + 1].prospect =
                                       sh.score + LookaheadScore(h, sh.state)],
                                  [sh EXCEPT !.prospect =
                                       sh.score + LookaheadScore(h, sh.state)]) } })

RECURSIVE SparseLookaheadLoop(_, _, _, _, _, _)
SparseLookaheadLoop(c, w, id, h, i, end) ==
  IF i >= end THEN w
  ELSE LET sh == w.nsh[i + 1]
           back == w.insts[id].backOffInstance
           offset == w.insts[id].backOffScore
       IN The({ SparseLookaheadLoop(c, w1, id, h, i + 1, end) :
                w1 \in { IF ~SparseContains(h, sh.state)
                           THEN IF earlyBackoff(c)
                                  THEN [w EXCEPT !.nsh[i + 1].prospect = ScoreMax,
                                                 !.nsh[i + 1].score = ScoreMax]
                                  ELSE [w EXCEPT !.nsh[i + 1].prospect = ScoreMax,
                                                 !.nsh[i + 1].score = sh.score + offset,
                                                 !.insts[back].transfer =
                                                    Append(w.insts[back].transfer, i)]
                           ELSE RecordMinimum(
                                  [w EXCEPT !.nsh[i + 1].prospect =
                                       sh.score + LookaheadScore(h, sh.state)],
                                  [sh EXCEPT !.prospect =
                                       sh.score + LookaheadScore(h, sh.state)]) } })

\* computes the table of the instance whatever its size is
LookaheadStepAnySize(c, w, id, k) ==
  LET inst == w.insts[id]
      la == IF inst.lookahead = <<>> THEN unigramHistory
            ELSE inst.lookahead[1]
      isSparse == sparseLookahead(c) /\ la # unigramHistory
      combined == IF sparseLookahead(c)
                    THEN backOffChainStates(w.insts, id)
                    ELSE StatesSize(inst)
  IN CASE k = 1 -> activateLmLookahead(c, w, id, FALSE)
       [] k = 2 -> IF inst.lookahead = <<>>
                     THEN activateLmLookahead(c, w, id, TRUE)
                     ELSE w
       [] k = 3 -> IF isSparse /\ inst.backOffInstance = 0
                     THEN The({ IF w3.insts[id].backOffInstance = 0
                                  THEN [w3 EXCEPT !.failed = TRUE] ELSE w3 :
                                w3 \in {getBackOffInstance(c, w, id)} })
                     ELSE w
       [] OTHER -> IF w.failed THEN w
                   ELSE IF isSparse
                     THEN SparseLookaheadLoop(c, w, id, la, inst.states.begin,
                                              inst.states.end)
                     ELSE StandardLookaheadLoop(w, la, inst.states.begin,
                                                inst.states.end)

\* the steps of applyLookaheadInInstance with LM lookahead, in order:
\* 1 the cached table, 2 the computed table when the instance is large
\* enough, 3 the back-off instance of a sparse table, 4 the loop over the
\* state hypotheses of the instance
LookaheadStep(c, w, id, k) ==
  LET inst == w.insts[id]
      la == IF inst.lookahead = <<>> THEN unigramHistory
            ELSE inst.lookahead[1]
      isSparse == sparseLookahead(c) /\ la # unigramHistory
      combined == IF sparseLookahead(c)
                    THEN backOffChainStates(w.insts, id)
                    ELSE StatesSize(inst)
  IN CASE k = 1 -> activateLmLookahead(c, w, id, FALSE)
       [] k = 2 -> IF inst.lookahead = <<>> /\ combined >= w.threshold
                     THEN activateLmLookahead(c, w, id, TRUE)
                     ELSE w
       [] k = 3 -> IF isSparse /\ inst.backOffInstance = 0
                     THEN The({ IF w3.insts[id].backOffInstance = 0
                                  THEN [w3 EXCEPT !.failed = TRUE] ELSE w3 :
                                w3 \in {getBackOffInstance(c, w, id)} })
                     ELSE w
       [] OTHER -> IF w.failed THEN w
                   ELSE IF isSparse
                     THEN SparseLookaheadLoop(c, w, id, la, inst.states.begin,
                                              inst.states.end)
                     ELSE StandardLookaheadLoop(w, la, inst.states.begin,
                                                inst.states.end)

\* applyLookaheadInInstance with acoustic lookahead disabled and
\* unigram-lookahead-backoff-factor 0
applyLookaheadInInstance(c, w0, id) ==
  IF StatesEmpty(w0.insts[id]) THEN w0
  ELSE IF ~lmLookaheadEnabled(c)
    THEN PrepareRange(w0, w0.insts[id].states.begin, w0.insts[id].states.end)
  ELSE Rounds(LAMBDA w, k : LookaheadStep(c, w, id, k), w0, 1, 4)

\* ----------------------------------------------------------------- expandHmm
RECURSIVE AddToScores(_, _)
AddToScores(hyps, d) ==
  IF hyps = <<>> THEN <<>>
  ELSE <<[Head(hyps) EXCEPT !.score = Head(hyps).score + d]>>
         \o AddToScores(Tail(hyps), d)

\* transfer of hypotheses queued by the lookahead of other instances; an
\* index behind the end of newStateHypotheses is an out-of-bounds read
RECURSIVE TransferAll(_, _, _)
TransferAll(w, first, idxs) ==
  IF idxs = <<>> THEN w
  ELSE IF Head(idxs) >= Len(w.nsh)
    THEN TransferAll([w EXCEPT !.failed = TRUE], first, Tail(idxs))
    ELSE The({ TransferAll([w EXCEPT !.nsh = ar.nsh, !.rec = ar.rec], first,
                           Tail(idxs)) :
               ar \in {activateOrUpdateStateHypothesisDirectly(
                         [nsh |-> w.nsh, rec |-> w.rec], first,
                         w.nsh[Head(idxs) + 1])} })

\* expansion of a list of hypotheses into the arena of the world w
ExpandInto(w, first, hyps, allowSkip) ==
  The({ [w EXCEPT !.nsh = ar.nsh, !.rec = ar.rec] :
        ar \in {ExpandAll([nsh |-> w.nsh, rec |-> w.rec], first, hyps,
                          allowSkip)} })

\* early back-off: the root hypotheses also enter the back-off instance
PassRootsToBackOff(c, w, id, roots) ==
  The({ IF g.insts[id].backOffInstance # 0
          THEN [g EXCEPT !.insts[g.insts[id].backOffInstance].rootStateHypotheses =
                  AddToScores(roots, g.insts[id].backOffScore)]
          ELSE g :
        g \in {getBackOffInstance(c, w, id)} })

\* the steps of the loop body of expandHmm for the instance id, in order:
\* 1 the root hypotheses, 2 early back-off, 3 the old hypotheses of the
\* instance, 4 the transfers, 5 the new range, 6 the lookahead
ExpandInstanceStep(c, w, id, first, roots, old, k) ==
  CASE k = 1 -> [ExpandInto(w, first, roots, c.allowSkips)
                   EXCEPT !.insts[id].states.begin = first]
    [] k = 2 -> [(IF earlyBackoff(c) /\ roots # <<>>
                    THEN PassRootsToBackOff(c, w, id, roots) ELSE w)
                   EXCEPT !.insts[id].rootStateHypotheses = <<>>]
    [] k = 3 -> ExpandInto(w, first, old, c.allowSkips)
    [] k = 4 -> [TransferAll(w, first, w.insts[id].transfer)
                   EXCEPT !.insts[id].transfer = <<>>]
    [] k = 5 -> [w EXCEPT !.insts[id].states.end = Len(w.nsh)]
    [] OTHER -> The({ [w1 EXCEPT !.first = first,
                                 !.lookaheadRun =
                                    Append(@, [id |-> id,
                                               table |-> w1.insts[id].lookahead,
                                               first |-> first,
                                               tableBefore |-> w.insts[id].lookahead,
                                               cached |-> w.cache,
                                               threshold |-> w.threshold,
                                               count |->
                                                 IF sparseLookahead(c)
                                                   THEN backOffChainStates(w.insts, id)
                                                   ELSE StatesSize(w.insts[id]),
                                               queued |->
                                                 IF w1.insts[id].backOffInstance = 0
                                                   THEN <<>>
                                                   ELSE w1.insts[w1.insts[id].backOffInstance].transfer,
                                               before |-> SubSeq(w.nsh, first + 1, Len(w.nsh)),
                                               after |-> SubSeq(w1.nsh, first + 1, Len(w.nsh))])] :
                      w1 \in {applyLookaheadInInstance(c, w, id)} })

\* body of the loop over activeInstances for the instance id
ExpandInstance(c, w, id, oldStateHypotheses) ==
  The({ Rounds(LAMBDA x, k : ExpandInstanceStep(c, x, id, first, roots, old, k),
               w, 1, 6) :
        first \in {Len(w.nsh)},
        roots \in {w.insts[id].rootStateHypotheses},
        old \in {SubSeq(oldStateHypotheses, w.insts[id].states.begin + 1,
                        w.insts[id].states.end)} })

\* one round of the loop of expandHmm over activeInstances
ExpandHmmRound(c, w, treeIdx, oldStateHypotheses) ==
  IF treeIdx >= Len(w.active) \/ w.failed THEN w
  ELSE ExpandInstance(c, w, w.active[treeIdx + 1], oldStateHypotheses)

\* reads activeInstances.size() once: the instances that a round appends
\* are not expanded
ExpandHmmLoopOnce(c, w, treeIdx, oldStateHypotheses) ==
  Rounds(LAMBDA x, k : ExpandHmmRound(c, x, k, oldStateHypotheses),
         w, treeIdx, Len(w.active) - 1)

\* the loop reads activeInstances.size() in every round: the instances that
\* a round appends are expanded by later rounds
RECURSIVE ExpandHmmLoop(_, _, _, _)
ExpandHmmLoop(c, w, treeIdx, oldStateHypotheses) ==
  IF treeIdx >= Len(w.active) \/ w.failed THEN w
  ELSE The({ ExpandHmmLoop(c, w1, Len(w.active), oldStateHypotheses) :
             w1 \in {Rounds(LAMBDA x, k :
                              ExpandHmmRound(c, x, k, oldStateHypotheses),
                            w, treeIdx, Len(w.active) - 1)} })

World ==
  [nsh |-> newStateHypotheses, rec |-> stateHypothesisRecombinationArray,
   first |-> currentTreeFirstNewStateHypothesis,
   insts |-> instances, active |-> activeInstances, count |-> instanceCount,
   cache |-> lookaheadCache,
   threshold |-> currentLookaheadInstanceStateThreshold_,
   bestProspect |-> bestProspect_, bestScore |-> bestScore_,
   lookaheadRun |-> <<>>, failed |-> failed]

ExpandHmm ==
  /\ pc = "expand"
  /\ ~failed
  /\ \E w0 \in {[World EXCEPT !.bestProspect = ScoreMax,
                              !.bestScore = ScoreMax]} :
     \E w \in {ExpandHmmLoop(cfg, w0, 0, stateHypotheses)} :
        /\ stateHypotheses' = w.nsh
        /\ newStateHypotheses' = <<>>
        /\ stateHypothesisRecombinationArray' = w.rec
        /\ currentTreeFirstNewStateHypothesis' = w.first
        /\ instances' = w.insts
        /\ activeInstances' = w.active
        /\ instanceCount' = w.count
        /\ lookaheadCache' = w.cache
        /\ currentLookaheadInstanceStateThreshold_' =
             Max(cfg.fullLookAheadStateMinimum, Len(w.nsh) \div 20)
        /\ bestProspect_' = w.bestProspect
        /\ bestScore_' = w.bestScore
        /\ lookaheadRun' = w.lookaheadRun
        /\ failed' = w.failed
  /\ pc' = "prune"
  /\ UNCHANGED <<cfg, timeFrame_, scorer_, activeInstanceMap, wordEndVars,
                 traceVars, globalScoreOffset_, resultVars, passRanges,
                 stepOrder, emptyFrames, recombineInput, incoming, beamRun,
                 expandRun, pruningRun, rootRun, lmVars>>

\* ------------------------------------------------------------------ pruning
\* Instance::mayDeactivate: nothing is pending for the instance
mayDeactivate(inst) ==
  inst.transfer = <<>> /\ inst.rootStateHypotheses = <<>>

\* Instance::~Instance: back-off links to the instance are severed
DeleteInstance(insts, id) ==
  LET parent == insts[id].backOffParent
      child == insts[id].backOffInstance
  IN The({ Remove(i2, id) :
           i2 \in { IF child # 0 /\ child \in DOMAIN i1
                      THEN [i1 EXCEPT ![child].backOffParent = 0] ELSE i1 :
                    i1 \in { IF parent # 0 /\ parent \in DOMAIN insts
                               THEN [insts EXCEPT ![parent].backOffInstance = 0]
                               ELSE insts } } })

\* erases the key of a deleted instance whatever the map holds under it
eventuallyDeactivateTreeAnyEntry(c, p, id, increaseInactiveCounter) ==
  LET at == p.insts[id] IN
  IF ~mayDeactivate(at) THEN [insts |-> p.insts, map |-> p.map, deleted |-> FALSE]
  ELSE IF ~StatesEmpty(at)
    THEN [insts |-> [p.insts EXCEPT ![id].inactive = 0], map |-> p.map,
          deleted |-> FALSE]
  ELSE IF at.inactive < c.instanceDeletionLatency
    THEN [insts |-> IF increaseInactiveCounter
                      THEN [p.insts EXCEPT ![id].inactive = at.inactive + 1]
                      ELSE p.insts,
          map |-> p.map, deleted |-> FALSE]
  ELSE [insts |-> DeleteInstance(p.insts, id),
        map |-> IF at.key \in DOMAIN p.map
                  THEN Remove(p.map, at.key) ELSE p.map,
        deleted |-> TRUE]

\* eventuallyDeactivateTree on p = [insts, map]; deleted tells the result
eventuallyDeactivateTree(c, p, id, increaseInactiveCounter) ==
  LET at == p.insts[id] IN
  IF ~mayDeactivate(at) THEN [insts |-> p.insts, map |-> p.map, deleted |-> FALSE]
  ELSE IF ~StatesEmpty(at)
    THEN [insts |-> [p.insts EXCEPT ![id].inactive = 0], map |-> p.map,
          deleted |-> FALSE]
  ELSE IF at.inactive < c.instanceDeletionLatency
    THEN [insts |-> IF increaseInactiveCounter
                      THEN [p.insts EXCEPT ![id].inactive = at.inactive + 1]
                      ELSE p.insts,
          map |-> p.map, deleted |-> FALSE]
  ELSE [insts |-> DeleteInstance(p.insts, id),
        map |-> IF at.key \in DOMAIN p.map /\ p.map[at.key] = id
                  THEN Remove(p.map, at.key) ELSE p.map,
        deleted |-> TRUE]

RECURSIVE FilterRange(_, _, _, _)
FilterRange(hyps, keep, from, to) ==
  IF from >= to THEN <<>>
  ELSE (IF keep[from + 1] THEN <<hyps[from + 1]>> ELSE <<>>)
         \o FilterRange(hyps, keep, from + 1, to)

\* the instance range after compression: begin and end are the write
\* position before and after the hypotheses of the instance were copied
CompressedRangeEndBeforeCopy(out, out1) == [begin |-> Len(out), end |-> Len(out)]

CompressedRange(out, out1) == [begin |-> Len(out), end |-> Len(out1)]

\* keeps the instances that stay active in the opposite order
CloseInstanceFront(c, a, id, out1) ==
  The({ [p |-> [a.p EXCEPT !.insts = d.insts, !.map = d.map],
         hypIn |-> Max(a.hypIn, a.p.insts[id].states.end),
         out |-> out1,
         kept |-> IF d.deleted THEN a.kept ELSE <<id>> \o a.kept,
         stop |-> FALSE] :
        d \in { eventuallyDeactivateTree(c, pr, id, TRUE) :
                pr \in {[insts |-> [a.p.insts EXCEPT ![id].states =
                                      CompressedRange(a.out, out1)],
                         map |-> a.p.map]} } })

\* the end of a round of a pruning loop for the instance id: the instance
\* takes its compressed range and is deactivated when it is empty;
\* a = [p, hypIn, out, kept, stop], out1 the hypotheses written so far
CloseInstance(c, a, id, out1) ==
  The({ [p |-> [a.p EXCEPT !.insts = d.insts, !.map = d.map],
         hypIn |-> Max(a.hypIn, a.p.insts[id].states.end),
         out |-> out1,
         kept |-> IF d.deleted THEN a.kept ELSE Append(a.kept, id),
         stop |-> FALSE] :
        d \in { eventuallyDeactivateTree(c, pr, id, TRUE) :
                pr \in {[insts |-> [a.p.insts EXCEPT ![id].states =
                                      CompressedRange(a.out, out1)],
                         map |-> a.p.map]} } })

\* one round of the loop of pruneStates over the active instances: k is the
\* position in activeInstances; a = [p, hypIn, out, kept, stop] with hypIn
\* the read index, out the compressed hypotheses, kept the instances that
\* stay active
PruneInstance(c, a, keep, k) ==
  LET p == a.p
      id == p.active[k]
      at == p.insts[id]
  IN IF a.stop THEN a
     ELSE IF a.hypIn # at.states.begin \/ at.states.end > Len(p.hyps)
       THEN [a EXCEPT !.p.failed = TRUE, !.stop = TRUE]
     ELSE The({ CloseInstance(c, a, id, out1) :
                out1 \in {a.out \o FilterRange(p.hyps, keep, a.hypIn,
                                               at.states.end)} })

PruneLoop(c, p, keep) ==
  The({ IF a.stop THEN a.p ELSE [a.p EXCEPT !.hyps = a.out, !.active = a.kept] :
        a \in { Rounds(LAMBDA x, k : PruneInstance(c, x, kp, k),
                       [p |-> p, hypIn |-> 0, out |-> <<>>, kept |-> <<>>,
                        stop |-> FALSE], 1, Len(p.active)) :
                kp \in {keep} } })

\* AcousticPruning::prune: the prospect exceeds bestProspect + threshold
AcousticPruning(bestProspect, threshold, hyp) ==
  hyp.prospect > bestProspect + threshold

\* retains what the pruning criterion rejects
pruneStatesKeepPruned(c, p, bestProspect, threshold) ==
  PruneLoop(c, p,
            [i \in 1 .. Len(p.hyps) |->
               AcousticPruning(bestProspect, threshold, p.hyps[i])])

\* pruneStates with an AcousticPruning of the given relative threshold on
\* p = [hyps, insts, active, map, rec, failed]
pruneStates(c, p, bestProspect, threshold) ==
  PruneLoop(c, p,
            [i \in 1 .. Len(p.hyps) |->
               ~AcousticPruning(bestProspect, threshold, p.hyps[i])])

\* u32 subtraction recombination - stateHypothesesSize
U32Sub(a, b) == IF a >= b THEN a - b ELSE a - b + U32Wrap

\* first pass of pruneStatesPerLmState: best hypothesis per state
LmStateFirstPass(hyps, rec, a) ==
  LET hyp == hyps[a + 1]
      size == Len(hyps)
      corrected == U32Sub(rec[hyp.state], size)
      replace == \/ corrected >= size
                 \/ hyps[corrected + 1].state # hyp.state
                 \/ hyps[corrected + 1].prospect > hyp.prospect
  IN IF replace THEN [rec EXCEPT ![hyp.state] = size + a] ELSE rec

\* the array being compressed in place: positions below hypOut already
\* hold moved hypotheses
InPlace(hyps, out, i) == IF i < Len(out) THEN out[i + 1] ELSE hyps[i + 1]

\* keeps only the best hypothesis of a state
RECURSIVE LmStateHypsBestOnly(_, _, _, _, _)
LmStateHypsBestOnly(c, p, hypIn, end, out) ==
  IF hypIn >= end THEN [rec |-> p.rec, out |-> out]
  ELSE LET hyp == p.hyps[hypIn + 1]
           size == Len(p.hyps)
           bestHypIndex == U32Sub(p.rec[hyp.state], size)
           keep == bestHypIndex = hypIn
       IN The({ LmStateHypsBestOnly(c, p1, hypIn + 1, end, out1) :
                p1 \in { IF bestHypIndex = hypIn
                           THEN [p EXCEPT !.rec[hyp.state] = Len(out) + size]
                           ELSE p },
                out1 \in { IF keep THEN Append(out, hyp) ELSE out } })

RECURSIVE LmStateHyps(_, _, _, _, _)
LmStateHyps(c, p, hypIn, end, out) ==
  IF hypIn >= end THEN [rec |-> p.rec, out |-> out]
  ELSE LET hyp == p.hyps[hypIn + 1]
           size == Len(p.hyps)
           bestHypIndex == U32Sub(p.rec[hyp.state], size)
           keep == \/ bestHypIndex = hypIn
                   \/ hyp.prospect <=
                        InPlace(p.hyps, out, bestHypIndex).prospect
                          + c.lmStatePruning
       IN The({ LmStateHyps(c, p1, hypIn + 1, end, out1) :
                p1 \in { IF bestHypIndex = hypIn
                           THEN [p EXCEPT !.rec[hyp.state] = Len(out) + size]
                           ELSE p },
                out1 \in { IF keep THEN Append(out, hyp) ELSE out } })

\* one round of the second pass over the active instances; a as in
\* PruneInstance
LmStateInstance(c, a, k) ==
  LET p == a.p
      id == p.active[k]
      at == p.insts[id]
  IN IF a.stop THEN a
     ELSE IF a.hypIn # at.states.begin \/ at.states.end > Len(p.hyps)
       THEN [a EXCEPT !.p.failed = TRUE, !.stop = TRUE]
     ELSE The({ CloseInstance(c, [a EXCEPT !.p.rec = r.rec], id, r.out) :
                r \in {LmStateHyps(c, p, a.hypIn, at.states.end, a.out)} })

LmStateLoop(c, p) ==
  The({ IF a.stop THEN a.p ELSE [a.p EXCEPT !.hyps = a.out, !.active = a.kept] :
        a \in {Rounds(LAMBDA x, k : LmStateInstance(c, x, k),
                      [p |-> p, hypIn |-> 0, out |-> <<>>, kept |-> <<>>,
                       stop |-> FALSE], 1, Len(p.active))} })

pruneStatesPerLmState(c, p) ==
  IF c.lmStatePruning >= c.acousticPruning \/ c.lmStatePruning >= ScoreMax
    THEN p
    ELSE The({ LmStateLoop(c, p1) :
               p1 \in { [p EXCEPT !.rec = rec] :
                        rec \in {Rounds(LAMBDA x, a :
                                          LmStateFirstPass(p.hyps, x, a),
                                        p.rec, 0, Len(p.hyps) - 1)} } })

\* adds the score of the state a second time
addAcousticScoreTwice(c, q, scorer, a) ==
  LET sh == q.hyps[a + 1]
      sc == 2 * scorer[sh.state]
      pr == sh.prospect + sc * c.acousticProspectFactor
  IN IF sh.prospect = ScoreMax THEN q
     ELSE [hyps |-> [q.hyps EXCEPT ![a + 1].score = sh.score + sc,
                                   ![a + 1].prospect = pr],
           bestProspect |-> Min(q.bestProspect, pr),
           bestScore |-> Min(q.bestScore, sh.score + sc)]

\* adds the weighted score to the score as well
addAcousticScoreWeighted(c, q, scorer, a) ==
  LET sh == q.hyps[a + 1]
      sc == scorer[sh.state] * c.acousticProspectFactor
  IN IF sh.prospect = ScoreMax THEN q
     ELSE [hyps |-> [q.hyps EXCEPT ![a + 1].score = sh.score + sc,
                                   ![a + 1].prospect = sh.prospect + sc],
           bestProspect |-> Min(q.bestProspect, sh.prospect + sc),
           bestScore |-> Min(q.bestScore, sh.score + sc)]

\* one round of addAcousticScoresInternal with the RecordMinimum policy;
\* q = [hyps, bestProspect, bestScore]
addAcousticScore(c, q, scorer, a) ==
  LET sh == q.hyps[a + 1]
      sc == scorer[sh.state]
      pr == sh.prospect + sc * c.acousticProspectFactor
  IN IF sh.prospect = ScoreMax THEN q
     ELSE [hyps |-> [q.hyps EXCEPT ![a + 1].score = sh.score + sc,
                                   ![a + 1].prospect = pr],
           bestProspect |-> Min(q.bestProspect, pr),
           bestScore |-> Min(q.bestScore, sh.score + sc)]

\* addAcousticScoresInternal over [from, to)
addAcousticScoresInternal(c, q, scorer, from, to) ==
  Rounds(LAMBDA x, a : addAcousticScore(c, x, scorer, a), q, from, to - 1)

\* histogram of the state prospects (acoustic-pruning-bins bins)
StateHistogramBins == 3

HistogramBin(lower, upper, v) ==
  LET b == ((v - lower) * (StateHistogramBins - 1)) \div (upper - lower) IN
  IF b < StateHistogramBins - 1 THEN b ELSE StateHistogramBins - 1

HistogramCount(hyps, lower, upper, b) ==
  Cardinality({i \in 1 .. Len(hyps) :
                 HistogramBin(lower, upper, hyps[i].prospect) <= b})

\* Histogram::quantile: lower edge of the first bin at which the running
\* count exceeds nHyps
quantileStateScore(hyps, minScore, maxScore, nHyps) ==
  The({ LET b == IF over = {} THEN StateHistogramBins
                 ELSE CHOOSE x \in over : \A y \in over : x <= y
        IN minScore + (b * (maxScore - minScore)) \div (StateHistogramBins - 1) :
        over \in {{b \in 0 .. (StateHistogramBins - 1) :
                     HistogramCount(hyps, minScore, maxScore, b) > nHyps}} })

\* the declared ranges of the active instances, in activeInstances order
RangesOf(pass, p) ==
  [pass |-> pass, size |-> Len(p.hyps),
   ranges |-> [k \in 1 .. Len(p.active) |-> p.insts[p.active[k]].states]]

\* the range <<from, to>> that addAcousticScores covers: from the first
\* hypothesis of the first active instance to the end of the last; with no
\* active instance front() and back() are undefined reads, and <<0, 0>> is
\* the outcome in which they do no harm
ActiveRange(p) ==
  IF p.active = <<>> THEN <<0, 0>>
  ELSE <<p.insts[p.active[1]].states.begin,
         p.insts[p.active[Len(p.active)]].states.end>>

\* PrefixFilter::prune: the state is not among those the filter admits
prefixFilterPrune(c, hyp) == hyp.state \notin c.prefixFilter

\* filterStates: pruneStates with the prefix filter, when there is one
filterStates(c, p) ==
  IF c.prefixFilter = {} THEN p
  ELSE PruneLoop(c, p, [i \in 1 .. Len(p.hyps) |->
                          ~prefixFilterPrune(c, p.hyps[i])])

\* the steps of pruneAndAddScores without pushed-boundary correction, in
\* order: 0 filterStates, 1 pruneStatesEarly,
\* 2 addAcousticScores<RecordMinimum>, 3 acoustic pruning, 4 LM-state
\* pruning, 5 histogram pruning; a = [p, onFailure, q, histogram, before,
\* passes, steps, undefinedRead, failed] with p the pruned world, onFailure
\* the world a failed assertion leaves, q the scored hypotheses and minima,
\* before the hypotheses that histogram pruning found, steps the steps that
\* ran, undefinedRead whether addAcousticScores read front() and back() of
\* an empty activeInstances
PruneStep(c, a, scorer, k) ==
  IF a.failed THEN a
  ELSE CASE k = 0 ->
         IF c.prefixFilter = {} THEN a
         ELSE The({ [a EXCEPT !.p = p0, !.onFailure = p0,
                              !.failed = p0.failed,
                              !.steps = Append(@, "filter"),
                              !.passes = Append(@, RangesOf("filter", p0))] :
                    p0 \in {filterStates(c, a.p)} })
       [] k = 1 ->
         The({ LET earlyFail == \/ p1.failed
                                \/ /\ c.earlyBeamPruning
                                   /\ a.q.bestProspect = ScoreMax
                                   /\ a.p.hyps # <<>>
               IN IF earlyFail THEN [a EXCEPT !.failed = TRUE]
                  ELSE [a EXCEPT !.p = p1, !.onFailure = p1,
                                 !.steps = IF c.earlyBeamPruning
                                             THEN Append(@, "early") ELSE @,
                                 !.passes = IF c.earlyBeamPruning
                                              THEN Append(@, RangesOf("early", p1))
                                              ELSE @] :
               p1 \in { IF c.earlyBeamPruning
                          THEN pruneStates(c, a.p, a.q.bestProspect,
                                           c.acousticPruning)
                          ELSE a.p } })
       [] k = 2 ->
         The({ [a EXCEPT !.q = q, !.p.hyps = q.hyps,
                         !.undefinedRead = a.p.active = <<>>,
                         !.steps = Append(@, "scores"),
                         !.failed = q.bestProspect = ScoreMax /\ q.hyps # <<>>] :
               q \in {addAcousticScoresInternal(c,
                        [hyps |-> a.p.hyps, bestProspect |-> ScoreMax,
                         bestScore |-> ScoreMax],
                        scorer, ActiveRange(a.p)[1], ActiveRange(a.p)[2])} })
       [] k = 3 ->
         The({ [a EXCEPT !.p = p2, !.failed = p2.failed,
                         !.steps = Append(@, "beam"),
                         !.passes = Append(@, RangesOf("beam", p2))] :
               p2 \in {pruneStates(c, a.p, a.q.bestProspect,
                                   c.acousticPruning)} })
       [] k = 4 ->
         The({ [a EXCEPT !.p = p3, !.failed = p3.failed,
                         !.lmState = [call |-> "pruneStatesPerLmState",
                                      before |-> a.p, after |-> p3],
                         !.steps =
                            IF c.lmStatePruning >= c.acousticPruning
                                 \/ c.lmStatePruning >= ScoreMax
                              THEN @ ELSE Append(@, "lmstate"),
                         !.passes =
                            IF c.lmStatePruning >= c.acousticPruning
                                 \/ c.lmStatePruning >= ScoreMax
                              THEN @ ELSE Append(@, RangesOf("lmstate", p3))] :
               p3 \in {pruneStatesPerLmState(c, a.p)} })
       [] OTHER ->
         IF Len(a.p.hyps) > c.acousticPruningLimit /\ c.acousticPruning # 0
           THEN The({ [a EXCEPT !.p = p4, !.failed = p4.failed,
                               !.histogram = TRUE,
                               !.before = a.p.hyps,
                               !.steps = Append(@, "histogram"),
                               !.passes = Append(@, RangesOf("histogram", p4))] :
                      p4 \in { pruneStates(c, a.p, a.q.bestProspect,
                                           acuThreshold - a.q.bestProspect) :
                               acuThreshold \in
                                 {quantileStateScore(a.p.hyps, a.q.bestProspect,
                                    a.q.bestProspect + c.acousticPruning,
                                    c.acousticPruningLimit)} } })
           ELSE [a EXCEPT !.before = a.p.hyps]

\* pruneAndAddScores: a failed assertion ends the call with the hypotheses
\* as the failing step found them
pruneAndAddScoresSteps(c, p0, best0, bestScore0, scorer) ==
  The({ IF a.failed
          THEN [p |-> [a.onFailure EXCEPT !.failed = TRUE],
                bestProspect |-> a.q.bestProspect,
                bestScore |-> a.q.bestScore, histogram |-> FALSE,
                before |-> <<>>, passes |-> <<>>, steps |-> a.steps,
                undefinedRead |-> a.undefinedRead, lmState |-> a.lmState]
          ELSE [p |-> a.p, bestProspect |-> a.q.bestProspect,
                bestScore |-> a.q.bestScore, histogram |-> a.histogram,
                before |-> a.before, passes |-> a.passes, steps |-> a.steps,
                undefinedRead |-> a.undefinedRead, lmState |-> a.lmState] :
        a \in {Rounds(LAMBDA x, k : PruneStep(c, x, scorer, k),
                      [p |-> p0, onFailure |-> p0,
                       q |-> [hyps |-> p0.hyps, bestProspect |-> best0,
                              bestScore |-> bestScore0],
                       histogram |-> FALSE, before |-> <<>>,
                       passes |-> <<>>, steps |-> <<>>,
                       undefinedRead |-> FALSE,
                       lmState |-> [call |-> "none"], failed |-> p0.failed],
                      0, 5)} })

PruneWorld ==
  [hyps |-> stateHypotheses, insts |-> instances, active |-> activeInstances,
   map |-> activeInstanceMap, rec |-> stateHypothesisRecombinationArray,
   failed |-> failed]

\* ScoreVector::operator Score
Total(score) == score.acoustic + score.lm

\* TraceManager: a modified trace id is the id of a trace item together
\* with a time difference and a score difference; ids are below
\* TraceIdRange, time differences below TimeRange, score differences are
\* stored with the bias ScoreMax
TraceIdRange == 2 ^ 6

TimeRange == 2 ^ 3

\* TraceManager::modify without state encoding
modify(trace, timeDifference, scoreDifference) ==
  trace + TraceIdRange * (1 + timeDifference
                            + TimeRange * (scoreDifference + ScoreMax))

isModified(trace) == trace >= TraceIdRange

getUnmodified(trace) == trace % TraceIdRange

\* TraceManager::getModification: [first, second], the time and the score
\* difference of a modified id
getModification(trace) ==
  LET m == (trace \div TraceIdRange) - 1
  IN [first |-> m % TimeRange, second |-> (m \div TimeRange) - ScoreMax]

\* TraceManager::traceItem
traceItem(trace) == traceItems[getUnmodified(trace)]

\* the depths as correctPushedTransitions reads them; the depths of the
\* network are within the range of the truncated type
truncatedStateDepths_ == stateDepths_

\* build-minimized-network-from-scratch is on; the flag is taken back when
\* the root state has depth 0
minimized_ == stateDepths_[rootState] # 0

\* corrects the trace of every hypothesis at or behind the root depth,
\* modified or not
correctPushedTransitionAlways(c, hyp) ==
  LET rootDepth == truncatedStateDepths_[rootState]
      traceItem_ == traces[traceItem(hyp.trace).trace]
  IN IF truncatedStateDepths_[hyp.state] >= rootDepth
       THEN [hyp |-> [hyp EXCEPT !.trace =
                        modify(getUnmodified(hyp.trace),
                               1 + timeFrame_ - traceItem_.time,
                               IF c.correctPushedAcousticScores
                                 THEN hyp.score + globalScoreOffset_
                                        - Total(traceItem_.score)
                                 ELSE 0)],
             failed |-> FALSE]
       ELSE [hyp |-> hyp, failed |-> FALSE]

\* the body of the loop of correctPushedTransitions for one state
\* hypothesis: [hyp, failed]
correctPushedTransition(c, hyp) ==
  LET rootDepth == truncatedStateDepths_[rootState]
      traceItem_ == traces[traceItem(hyp.trace).trace]
  IN IF truncatedStateDepths_[hyp.state] = rootDepth
       THEN [hyp |-> [hyp EXCEPT !.trace =
                        modify(getUnmodified(hyp.trace),
                               1 + timeFrame_ - traceItem_.time,
                               IF c.correctPushedAcousticScores
                                 THEN hyp.score + globalScoreOffset_
                                        - Total(traceItem_.score)
                                 ELSE 0)],
             failed |-> FALSE]
     ELSE IF ~isModified(hyp.trace)
       THEN IF truncatedStateDepths_[hyp.state] >= rootDepth
              THEN [hyp |-> [hyp EXCEPT !.trace =
                               modify(hyp.trace, timeFrame_ - traceItem_.time,
                                      IF /\ c.correctPushedAcousticScores
                                         /\ timeFrame_ - traceItem_.time > 0
                                        THEN hyp.score + globalScoreOffset_
                                               - scorer_[hyp.state]
                                               - Total(traceItem_.score)
                                        ELSE 0)],
                    failed |-> timeFrame_ - traceItem_.time < 0]
              ELSE [hyp |-> hyp, failed |-> FALSE]
     ELSE [hyp |-> hyp, failed |-> FALSE]

\* correctPushedTransitions on the hypotheses hyps: [hyps, failed]
correctPushedTransitions(c, hyps) ==
  IF ~c.correctPushedBoundaryTimes \/ ~minimized_
    THEN [hyps |-> hyps, failed |-> FALSE]
    ELSE The({ [hyps |-> [i \in 1 .. Len(hyps) |-> r[i].hyp],
                failed |-> \E i \in 1 .. Len(hyps) : r[i].failed] :
               r \in {[i \in 1 .. Len(hyps) |->
                         correctPushedTransition(c, hyps[i])]} })

\* pruneAndAddScores, with correctPushedTransitions as its last step; an
\* undefined read either does no harm or ends the program
pruneAndAddScores ==
  /\ pc = "prune"
  /\ ~failed
  /\ \E p0 \in {PruneWorld} :
     \E r0 \in {pruneAndAddScoresSteps(cfg, p0, bestProspect_, bestScore_,
                                       scorer_)} :
     \E r \in IF r0.undefinedRead
                THEN {r0, [r0 EXCEPT !.p.failed = TRUE]} ELSE {r0} :
     \E corrected \in {IF r.p.failed THEN [hyps |-> r.p.hyps, failed |-> TRUE]
                        ELSE correctPushedTransitions(cfg, r.p.hyps)} :
          /\ stateHypotheses' = corrected.hyps
          /\ instances' = r.p.insts
          /\ activeInstances' = r.p.active
          /\ activeInstanceMap' = r.p.map
          /\ stateHypothesisRecombinationArray' = r.p.rec
          /\ failed' = corrected.failed
          /\ bestProspect_' = r.bestProspect
          /\ bestScore_' = r.bestScore
          /\ histogramPruned' = [applied |-> r.histogram, before |-> r.before]
          /\ passRanges' = r.passes
          /\ stepOrder' = r.steps
          /\ pruningRun' = r.lmState
          /\ emptyFrames' =
               [id \in DOMAIN r.p.insts |->
                  IF StatesEmpty(r.p.insts[id])
                    THEN (IF id \in DOMAIN emptyFrames
                            THEN emptyFrames[id] ELSE 0) + 1
                    ELSE 0]
  /\ pc' = "rescale"
  /\ UNCHANGED <<cfg, timeFrame_, scorer_, newStateHypotheses,
                 currentTreeFirstNewStateHypothesis, instanceCount,
                 lookaheadCache, currentLookaheadInstanceStateThreshold_,
                 wordEndVars, traceVars, globalScoreOffset_, hadWordEnd_,
                 sentenceEnd, recombineInput, incoming, beamRun, expandRun,
                 lookaheadRun, rootRun, lmVars>>

\* bestScore(): the cached minimum, recomputed from the hypotheses when unset
bestScore ==
  IF bestScore_ = ScoreMax /\ stateHypotheses # <<>>
    THEN LET m == CHOOSE i \in 1 .. Len(stateHypotheses) :
                    \A j \in 1 .. Len(stateHypotheses) :
                      stateHypotheses[i].score <= stateHypotheses[j].score
         IN stateHypotheses[m].score
    ELSE bestScore_

\* leaves the score where it is
ScoreMinusNothing(score, offset) == score

\* score - offset in f32: the largest value stays what it is
ScoreMinus(score, offset) ==
  IF score = ScoreMax THEN ScoreMax ELSE score - offset

\* the body of rescale(offset, ignoreWordEnds); a call with word ends
\* against the precondition or with new state hypotheses ends the program
rescaleOn(offset, ignoreWordEnds) ==
  IF \/ ~(ignoreWordEnds \/ wordEndHypotheses = <<>>)
     \/ earlyWordEndHypotheses # <<>>
     \/ newStateHypotheses # <<>>
    THEN /\ failed' = TRUE
         /\ UNCHANGED <<stateHypotheses, minWordEndScore_, scoreVars>>
    ELSE /\ failed' = failed
         /\ stateHypotheses' =
              [i \in 1 .. Len(stateHypotheses) |->
                 [stateHypotheses[i] EXCEPT !.score = @ - offset,
                                            !.prospect = @ - offset]]
         /\ minWordEndScore_' = ScoreMinus(minWordEndScore_, offset)
         /\ globalScoreOffset_' = globalScoreOffset_ + offset
         /\ bestProspect_' = IF bestProspect_ # ScoreMax
                               THEN bestProspect_ - offset ELSE bestProspect_
         /\ bestScore_' = IF bestScore_ # ScoreMax
                            THEN bestScore_ - offset ELSE bestScore_

\* rescale(offset) as the frame loop calls it between pruning and the
\* word-end search, with offset 0 or the best score
rescale ==
  /\ pc = "rescale"
  /\ ~failed
  /\ \E offset \in {0, bestScore} :
       /\ offset < ScoreMax
       /\ rescaleOn(offset, FALSE)
  /\ pc' = "wordends"
  /\ UNCHANGED <<cfg, timeFrame_, scorer_, newStateHypotheses,
                 stateHypothesisRecombinationArray,
                 currentTreeFirstNewStateHypothesis, instanceVars,
                 earlyWordEndHypotheses, wordEndHypotheses, traceVars,
                 resultVars, ghostVars>>

\* ------------------------------------------------------ entering the trees
Trace(predecessor, pronunciation, time, score) ==
  [predecessor |-> predecessor, sibling |-> 0, pronunciation |-> pronunciation,
   time |-> time, score |-> score]

ScoreVector(acoustic, lm) == [acoustic |-> acoustic, lm |-> lm]

WordEndHypothesis(history, lookaheadHistory, transitState, pronunciation, score, trace, endExit) ==
  [history |-> history, lookaheadHistory |-> lookaheadHistory,
   transitState |-> transitState, pronunciation |-> pronunciation,
   score |-> score, trace |-> trace, endExit |-> endExit]

addStartupWordEndHypothesis ==
  /\ pc = "start"
  /\ ~failed
  /\ traces' = Append(traces,
        Trace(0, 0, timeFrame_, ScoreVector(0 + globalScoreOffset_, 0)))
  /\ wordEndHypotheses' = Append(wordEndHypotheses,
        WordEndHypothesis(startHistory, startHistory, rootState, 0,
                          ScoreVector(0, 0), Len(traces) + 1, InvalidU32))
  /\ pc' = "feed"
  /\ UNCHANGED <<cfg, timeFrame_, scorer_, arenaVars, instanceVars,
                 earlyWordEndHypotheses, minWordEndScore_, traceItems,
                 scoreVars, resultVars, ghostVars, failed>>

\* setCurrentTimeFrame for the next frame of the segment
setCurrentTimeFrame ==
  /\ pc = "feed"
  /\ ~failed
  /\ timeFrame_ < MaxFrames
  /\ timeFrame_' = timeFrame_ + 1
  /\ scorer_' \in AcousticFrames
  /\ pc' = "newtrees"
  /\ UNCHANGED <<cfg, arenaVars, instanceVars, wordEndVars, traceVars,
                 scoreVars, resultVars, ghostVars, failed>>

\* makes and activates the instance without entering it in the map
instanceForKeyUnregistered(create, tw, weh) ==
  IF weh.history \in DOMAIN tw.map
    THEN [tw EXCEPT !.ret = tw.map[weh.history]]
  ELSE IF ~create THEN [tw EXCEPT !.ret = 0]
  ELSE [tw EXCEPT
          !.count = tw.count + 1,
          !.active = Append(tw.active, tw.count + 1),
          !.insts = Put(tw.insts, tw.count + 1,
                        [NewInstance(weh.history, 0) EXCEPT
                           !.lookAheadHistory = weh.lookaheadHistory]),
          !.ret = tw.count + 1]

\* instanceForKey: the instance of the history of weh, made and activated
\* when there is none and create is set; tw = [insts, active, map, count,
\* items, ret] with ret the instance returned (0 for none)
instanceForKey(create, tw, weh) ==
  IF weh.history \in DOMAIN tw.map
    THEN [tw EXCEPT !.ret = tw.map[weh.history]]
  ELSE IF ~create THEN [tw EXCEPT !.ret = 0]
  ELSE [tw EXCEPT
          !.count = tw.count + 1,
          !.active = Append(tw.active, tw.count + 1),
          !.map = Put(tw.map, weh.history, tw.count + 1),
          !.insts = Put(tw.insts, tw.count + 1,
                        [NewInstance(weh.history, 0) EXCEPT
                           !.lookAheadHistory = weh.lookaheadHistory]),
          !.ret = tw.count + 1]

\* activateOrUpdateTree for one word-end hypothesis: the instance of its
\* history takes a trace item and a root state hypothesis (Instance::enter)
activateOrUpdateTree(c, tw, weh) ==
  The({ IF lmLookaheadEnabled(c)
          THEN [t2 EXCEPT !.insts[t2.ret].lookAheadHistory =
                  reducedHistory(weh.lookaheadHistory, MaxHistoryLength)]
          ELSE t2 :
        t2 \in { [t1 EXCEPT
                    !.items = Append(t1.items,
                       [trace |-> weh.trace, history |-> weh.history,
                        lookaheadHistory |->
                           t1.insts[t1.ret].lookAheadHistory]),
                    !.insts[t1.ret].rootStateHypotheses =
                       Append(t1.insts[t1.ret].rootStateHypotheses,
                              StateHypothesis(weh.transitState, Len(t1.items) + 1,
                                              Total(weh.score)))] :
                 t1 \in {instanceForKey(TRUE, tw, weh)} } })

StartTreesLoop(c, tw, wehs) ==
  Rounds(LAMBDA x, k : activateOrUpdateTree(c, x, wehs[k]), tw, 1, Len(wehs))

startNewTrees ==
  /\ pc = "newtrees"
  /\ ~failed
  /\ \E tw0 \in {[insts |-> instances, active |-> activeInstances,
                  map |-> activeInstanceMap, count |-> instanceCount,
                  items |-> traceItems, ret |-> 0]} :
     \E tw \in {StartTreesLoop(cfg, tw0, wordEndHypotheses)} :
        /\ instances' = tw.insts
        /\ activeInstances' = tw.active
        /\ activeInstanceMap' = tw.map
        /\ instanceCount' = tw.count
        /\ traceItems' = tw.items
  /\ wordEndHypotheses' = <<>>
  /\ pc' = "expand"
  /\ UNCHANGED <<cfg, timeFrame_, scorer_, arenaVars, lookaheadCache,
                 currentLookaheadInstanceStateThreshold_,
                 earlyWordEndHypotheses, minWordEndScore_, traces,
                 scoreVars, resultVars, ghostVars, failed>>

\* ---------------------------------------------------------------- word ends
\* early-word-end-pruning-minimum-lm-score, the LM score anticipated for a
\* word end before its LM score is looked up
earlyWordEndPruningAnticipatedLmScore_ == 0

EarlyWordEndHypothesis(trace, score, exit) ==
  [trace |-> trace, score |-> score, exit |-> exit]

\* Instance::addLmScore: the LM score of the pronunciation in the context of
\* the instance, plus the accumulated back-off offset of a back-off instance
addLmScore(at, weh, pron) ==
  [weh EXCEPT !.score.lm = @ + at.totalBackOffOffset
                             + LmScore(at.lookAheadHistory, pron)]

\* leaves the exit penalty of the state out of the acoustic score
EarlyWordEndAtNoExit(at, hyp, exit) ==
  LET preLm == traces[traceItem(hyp.trace).trace].score.lm
  IN addLmScore(at,
       EarlyWordEndHypothesis(hyp.trace,
         ScoreVector(hyp.score - preLm - at.totalBackOffOffset, preLm), exit),
       exits(exit).pronunciation)

\* the early word-end hypothesis of a state hypothesis at one exit
EarlyWordEndAt(at, hyp, exit) ==
  LET preLm == traces[traceItem(hyp.trace).trace].score.lm
  IN addLmScore(at,
       EarlyWordEndHypothesis(hyp.trace,
         ScoreVector(hyp.score - preLm - at.totalBackOffOffset
                       + transitionModel(hyp.state).exit,
                     preLm), exit),
       exits(exit).pronunciation)

\* takes the score of the best word end as the bound
WordEndMinimumNoBeam(c, e, weh) ==
  IF Total(weh.score) < e.min
    THEN [e EXCEPT !.min = Total(weh.score),
                   !.bound = IF c.earlyWordEndPruning
                               THEN Total(weh.score)
                               ELSE e.bound]
    ELSE e

\* the minimum and the pruning bound after the word end weh was seen
WordEndMinimum(c, e, weh) ==
  IF Total(weh.score) < e.min
    THEN [e EXCEPT !.min = Total(weh.score),
                   !.bound = IF c.earlyWordEndPruning
                               THEN Total(weh.score)
                                    + Min(c.acousticPruning, c.wordEndPruning)
                               ELSE e.bound]
    ELSE e

\* the label loop of one state hypothesis; e = [list, min, bound]; the
\* loop over a slow batch drops a word end whose LM score grew by more than
\* ImplausibleLmScore
RECURSIVE WordEndLabels(_, _, _, _, _, _)
WordEndLabels(c, e, at, hyp, loop, labels) ==
  IF labels = <<>> THEN e
  ELSE The({ WordEndLabels(c, e2, at, hyp, loop, Tail(labels)) :
             e2 \in { IF /\ loop = "slow"
                         /\ weh.score.lm
                              - traces[traceItem(hyp.trace).trace].score.lm
                              > ImplausibleLmScore
                        THEN e
                        ELSE The({ IF /\ c.earlyWordEndPruning
                                      /\ Total(weh.score) > e1.bound
                                     THEN e1
                                     ELSE [e1 EXCEPT
                                             !.list = Append(e1.list, weh)] :
                                   e1 \in {WordEndMinimum(c, e, weh)} }) :
                      weh \in {EarlyWordEndAt(at, hyp, Head(labels))} } })

RECURSIVE WordEndStates(_, _, _, _, _)
WordEndStates(c, e, at, from, to) ==
  IF from >= to THEN e
  ELSE The({ WordEndStates(c, e1, at, from + 1, to) :
             e1 \in { IF \/ x.loop = "none"
                         \/ /\ c.earlyWordEndPruning
                            /\ hyp.score + transitionModel(hyp.state).exit
                                 + earlyWordEndPruningAnticipatedLmScore_ > e.bound
                        THEN e
                        ELSE WordEndLabels(c, e, at, hyp, x.loop, x.exits) :
                      hyp \in {stateHypotheses[from + 1]},
                      x \in {ExitLoop(stateHypotheses[from + 1].state)} } })

WordEndInstances(c, e, k) ==
  The({ WordEndStates(c, e, at, at.states.begin, at.states.end) :
        at \in {instances[activeInstances[k]]} })

findWordEnds ==
  /\ pc = "wordends"
  /\ ~failed
  /\ \E e \in {Rounds(LAMBDA x, k : WordEndInstances(cfg, x, k),
                      [list |-> <<>>, min |-> ScoreMax, bound |-> ScoreMax],
                      1, Len(activeInstances))} :
        /\ failed' = (earlyWordEndHypotheses # <<>>)
        /\ earlyWordEndHypotheses' = e.list
        /\ minWordEndScore_' = e.min
  /\ pc' = "earlywe"
  /\ UNCHANGED <<cfg, timeFrame_, scorer_, arenaVars, instanceVars,
                 wordEndHypotheses, traceVars, scoreVars, resultVars,
                 ghostVars>>

\* the pronunciation of the traces that carry a correction
epsilonLemmaPronunciation == 8

\* getModifiedTrace without state encoding on the traces ts: the trace of
\* the item, or for a modified id with a time or score difference a new
\* trace behind it that carries the differences; [traces, trace, failed]
getModifiedTrace(ts, traceId) ==
  LET item == traceItem(traceId)
      offsets == getModification(traceId)
  IN IF isModified(traceId) /\ (offsets.first # 0 \/ offsets.second # 0)
       THEN [traces |-> Append(ts,
                          Trace(item.trace, epsilonLemmaPronunciation,
                                ts[item.trace].time + offsets.first,
                                [ts[item.trace].score
                                   EXCEPT !.acoustic = @ + offsets.second])),
             trace |-> Len(ts) + 1,
             failed |-> ts[item.trace].time + offsets.first > timeFrame_]
       ELSE [traces |-> ts, trace |-> item.trace, failed |-> FALSE]

\* one surviving early word end as a full word-end hypothesis on the trace
ExpandEarlyWordEndOn(in, trace) ==
  LET we == exits(in.exit)
      item == traceItem(in.trace)
  IN WordEndHypothesis(extendedHistory(item.history, Lemma(we.pronunciation)),
                       extendedHistory(item.lookaheadHistory, Lemma(we.pronunciation)),
                       we.transitState, we.pronunciation, in.score, trace,
                       in.exit)

\* the expansion of an early word end whose trace id is not modified
ExpandEarlyWordEnd(in) == ExpandEarlyWordEndOn(in, traceItem(in.trace).trace)

\* the expansion loop of pruneEarlyWordEnds for one early word end within
\* the beam: x = [traces, wehs, failed]
ExpandEarlyWordEndLoop(x, in) ==
  The({ [traces |-> g.traces,
         wehs |-> Append(x.wehs, ExpandEarlyWordEndOn(in, g.trace)),
         failed |-> x.failed \/ g.failed] :
        g \in {getModifiedTrace(x.traces, in.trace)} })

\* lexicon_->phonemeInventory()->nPhonemes()
nPhonemes == 9

\* the first-phoneme group of a word end leaving through exit: nPhonemes
\* when the transit state is pushed, otherwise the initial phoneme of the
\* transit state's description, -1 when it has none
PhonemeGroup(exit) ==
  LET transit == exits(exit).transitState IN
  IF stateDepths_[transit] < stateDepths_[rootState] THEN nPhonemes
  ELSE IF transit \in DOMAIN rootTransitDescriptions
    THEN rootTransitDescriptions[transit][2]
  ELSE -1

\* thresholdsPerGroup[group] after the best scores of the early word ends
\* in kept were recorded and the phoneme threshold was added
GroupThreshold(c, kept, group) ==
  LET scores == {Total(kept[i].score) :
                   i \in {j \in 1 .. Len(kept) :
                            PhonemeGroup(kept[j].exit) = group}}
  IN IF group = nPhonemes \/ scores = {} THEN ScoreMax
     ELSE (CHOOSE x \in scores : \A y \in scores : x <= y)
            + c.wordEndPhonemePruningThreshold

\* the indices of kept that first-phoneme pruning leaves
PhonemePruned(c, kept) ==
  {i \in 1 .. Len(kept) :
     Total(kept[i].score) < GroupThreshold(c, kept, PhonemeGroup(kept[i].exit))}

\* SearchSpace::quantileWordEndScore
quantileWordEndScore(wehs, minScore, maxScore, nHyps) ==
  quantileStateScore([i \in 1 .. Len(wehs) |->
                        [prospect |-> Total(wehs[i].score)]],
                     minScore, maxScore, nHyps)

\* SearchSpace::pruneWordEnds
pruneWordEnds(wehs, absoluteScoreThreshold) ==
  SelectSeq(wehs, LAMBDA in : Total(in.score) <= absoluteScoreThreshold)

\* histogram word-end pruning at the end of pruneEarlyWordEnds
HistogramWordEndPruning(c, wehs, minScore) ==
  IF Len(wehs) > c.wordEndPruningLimit
    THEN pruneWordEnds(wehs,
           quantileWordEndScore(wehs, minScore, minScore + c.wordEndPruning,
                                c.wordEndPruningLimit))
    ELSE wehs

\* the body of pruneEarlyWordEnds on the traces ts, the early word ends
\* early, the list wehs and the minimum minScore; the result is
\* [wehs, traces, failed]
PruneEarlyWordEnds(c, ts, early, wehs, minScore) ==
  The({ IF c.wordEndPhonemePruningThreshold < c.wordEndPruning
          THEN IF \/ \E i \in 1 .. Len(kept) : PhonemeGroup(kept[i].exit) = -1
                  \/ unpushedCoarticulatedRootStates = {}
                  \/ wehs # <<>>
                  \/ x.failed
                 THEN [wehs |-> wehs, traces |-> x.traces, failed |-> TRUE]
                 ELSE The({ [wehs |-> HistogramWordEndPruning(c,
                                        [i \in 1 .. Len(left) |-> left[i].weh],
                                        minScore),
                             traces |-> x.traces,
                             failed |-> FALSE] :
                            left \in {The({ SelectSeq(
                                              [i \in 1 .. Len(kept) |->
                                                 [weh |-> x.wehs[i],
                                                  keep |-> i \in keep]],
                                              LAMBDA y : y.keep) :
                                            keep \in {PhonemePruned(c, kept)} })} })
          ELSE [wehs |-> HistogramWordEndPruning(c, wehs \o x.wehs, minScore),
                traces |-> x.traces,
                failed |-> x.failed] :
        kept \in {SelectSeq(early,
                    LAMBDA in : Total(in.score)
                                  <= minScore + Min(c.acousticPruning,
                                                    c.wordEndPruning))},
        x \in {Rounds(LAMBDA y, k :
                        ExpandEarlyWordEndLoop(y,
                          SelectSeq(early,
                            LAMBDA in : Total(in.score)
                                          <= minScore + Min(c.acousticPruning,
                                                            c.wordEndPruning))[k]),
                      [traces |-> ts, wehs |-> <<>>, failed |-> FALSE],
                      1, Len(SelectSeq(early,
                               LAMBDA in : Total(in.score)
                                             <= minScore
                                                  + Min(c.acousticPruning,
                                                        c.wordEndPruning))))} })

pruneEarlyWordEnds ==
  /\ pc = "earlywe"
  /\ ~failed
  /\ \E r \in {PruneEarlyWordEnds(cfg, traces, earlyWordEndHypotheses,
                                  wordEndHypotheses, minWordEndScore_)} :
        /\ wordEndHypotheses' = r.wehs
        /\ traces' = r.traces
        /\ failed' = r.failed
  /\ earlyWordEndHypotheses' = <<>>
  /\ pc' = "traces"
  /\ UNCHANGED <<cfg, timeFrame_, scorer_, arenaVars, instanceVars,
                 minWordEndScore_, traceItems, scoreVars, resultVars,
                 ghostVars>>

\* createTraces(time): tw = [traces, wehs]
CreateTracesLoop(tw, weh, time) ==
  LET preLmScore == tw.traces[weh.trace].score.lm
      clamp == weh.score.lm < preLmScore
      lm == IF clamp THEN preLmScore ELSE weh.score.lm
  IN IF weh.pronunciation # 0
       THEN [traces |-> Append(tw.traces,
                          Trace(weh.trace, weh.pronunciation, time,
                                ScoreVector(weh.score.acoustic + globalScoreOffset_,
                                            lm))),
             wehs |-> Append(tw.wehs,
                        [weh EXCEPT !.trace = Len(tw.traces) + 1,
                                    !.score.lm = lm])]
       ELSE [tw EXCEPT !.wehs = Append(tw.wehs, weh)]

createTraces ==
  /\ pc = "traces"
  /\ ~failed
  /\ \E tw \in {Rounds(LAMBDA x, k :
                         CreateTracesLoop(x, wordEndHypotheses[k],
                                          timeFrame_ + 1),
                       [traces |-> traces, wehs |-> <<>>],
                       1, Len(wordEndHypotheses))} :
        /\ traces' = tw.traces
        /\ wordEndHypotheses' = tw.wehs
  /\ pc' = "recombine"
  /\ UNCHANGED <<cfg, timeFrame_, scorer_, arenaVars, instanceVars,
                 earlyWordEndHypotheses, minWordEndScore_, traceItems,
                 scoreVars, resultVars, ghostVars, failed>>

\* ------------------------------------------------- word-end recombination
\* r = [out, traces, failed]; a is the incoming hypothesis, b = out[i] the
\* stored one
\* compares the scores only
IncomingWinsByScore(a, b) == Total(b.score) > Total(a.score)

\* the incoming hypothesis a is better than the stored hypothesis b
IncomingWins(a, b) ==
  \/ Total(b.score) > Total(a.score)
  \/ /\ Total(b.score) = Total(a.score)
     /\ b.pronunciation > a.pronunciation

\* links the trace of a losing incoming hypothesis behind the stored trace
\* without handing it the siblings the stored trace had
recombineTwoHypothesesDropChain(r, a, i, shallCreateLattice) ==
  LET b == r.out[i]
      siblingSet == r.traces[a.trace].sibling # 0
  IN IF IncomingWins(a, b)
       THEN [out |-> [r.out EXCEPT ![i] =
                        [b EXCEPT !.history = a.history,
                                  !.pronunciation = a.pronunciation,
                                  !.endExit = a.endExit,
                                  !.score = a.score,
                                  !.trace = a.trace]],
             traces |-> IF shallCreateLattice
                          THEN [r.traces EXCEPT ![a.trace].sibling = b.trace]
                          ELSE r.traces,
             failed |-> r.failed \/ (shallCreateLattice /\ siblingSet)]
       ELSE [out |-> r.out,
             traces |-> IF shallCreateLattice
                          THEN [r.traces EXCEPT ![b.trace].sibling = a.trace]
                          ELSE r.traces,
             failed |-> r.failed \/ (shallCreateLattice /\ siblingSet)]

recombineTwoHypotheses(r, a, i, shallCreateLattice) ==
  LET b == r.out[i]
      siblingSet == r.traces[a.trace].sibling # 0
  IN IF IncomingWins(a, b)
       THEN [out |-> [r.out EXCEPT ![i] =
                        [b EXCEPT !.history = a.history,
                                  !.pronunciation = a.pronunciation,
                                  !.endExit = a.endExit,
                                  !.score = a.score,
                                  !.trace = a.trace]],
             traces |-> IF shallCreateLattice
                          THEN [r.traces EXCEPT ![a.trace].sibling = b.trace]
                          ELSE r.traces,
             failed |-> r.failed \/ (shallCreateLattice /\ siblingSet)]
       ELSE [out |-> r.out,
             traces |-> IF shallCreateLattice
                          THEN [r.traces EXCEPT
                                  ![a.trace].sibling = r.traces[b.trace].sibling,
                                  ![b.trace].sibling = a.trace]
                          ELSE r.traces,
             failed |-> r.failed \/ (shallCreateLattice /\ siblingSet)]

\* wordEndHypothesisMap.find: the stored hypothesis with the same history
\* and transit state, 0 when there is none
wordEndHypothesisMapFind(out, in) ==
  The({ IF found = {} THEN 0 ELSE CHOOSE i \in found : \A j \in found : i <= j :
        found \in {{i \in 1 .. Len(out) :
                      out[i].history = in.history
                        /\ out[i].transitState = in.transitState}} })

\* puts the hypothesis in front of the stored ones
InsertWordEndFirst(r, in) == [r EXCEPT !.out = <<in>> \o r.out]

\* *out = *in; wordEndHypothesisMap.insert(out); ++out
InsertWordEnd(r, in) == [r EXCEPT !.out = Append(r.out, in)]

RecombineLoop(r, in, shallCreateLattice) ==
  The({ IF i # 0 THEN recombineTwoHypotheses(r, in, i, shallCreateLattice)
        ELSE InsertWordEnd(r, in) :
        i \in {wordEndHypothesisMapFind(r.out, in)} })

\* recombineWordEnds in non-mesh mode, lattice mode not overridden by the
\* recognition context
RecombineStep(from, to) ==
  /\ pc = from
  /\ ~failed
  /\ \E r \in {Rounds(LAMBDA x, k :
                        RecombineLoop(x, wordEndHypotheses[k],
                                      cfg.shallCreateLattice),
                      [out |-> <<>>, traces |-> traces, failed |-> FALSE],
                      1, Len(wordEndHypotheses))} :
        /\ wordEndHypotheses' = r.out
        /\ traces' = r.traces
        /\ failed' = r.failed
  /\ recombineInput' = [wehs |-> wordEndHypotheses, traces |-> traces]
  /\ pc' = to
  /\ UNCHANGED <<cfg, timeFrame_, scorer_, arenaVars, instanceVars,
                 earlyWordEndHypotheses, minWordEndScore_, traceItems,
                 scoreVars, resultVars, passRanges, stepOrder, emptyFrames,
                 incoming, beamRun, expandRun, lookaheadRun,
                 pruningRun, rootRun, lmVars>>

recombineWordEnds == RecombineStep("recombine", "feed")

\* -------------------------------------------------------------- sentence end
\* rootForCoarticulation without state encoding: r = [state, failed]
\* returns the last root state that matches also when several match
rootForCoarticulationInLast(descriptions, coarticulation) ==
  LET matching == {st \in DOMAIN descriptions :
                     descriptions[st] = coarticulation}
  IN IF coarticulation = <<term, term>>
       THEN [state |-> rootState, failed |-> FALSE]
     ELSE IF matching = {} THEN [state |-> 0, failed |-> TRUE]
     ELSE [state |-> CHOOSE st \in matching : \A o \in matching : o <= st,
           failed |-> FALSE]

\* rootForCoarticulation on a network with the given root transit
\* descriptions: the loop runs over the map in the order of the state ids
\* and keeps the last match; a second match and no match are critical
\* errors
rootForCoarticulationIn(descriptions, coarticulation) ==
  LET matching == {st \in DOMAIN descriptions :
                     descriptions[st] = coarticulation}
  IN IF coarticulation = <<term, term>>
       THEN [state |-> rootState, failed |-> FALSE]
     ELSE IF matching = {} THEN [state |-> 0, failed |-> TRUE]
     ELSE [state |-> CHOOSE st \in matching : \A o \in matching : o <= st,
           failed |-> Cardinality(matching) > 1]

rootForCoarticulation(coarticulation) ==
  rootForCoarticulationIn(rootTransitDescriptions, coarticulation)

\* allows the unforced transit states also when a final root is forced
WordEndAllowedUnforced(c, forceRoot, weh) ==
  \/ weh.transitState = forceRoot
  \/ weh.transitState = rootState
  \/ weh.transitState = ciRootState
  \/ weh.transitState \in c.uncoarticulatedWordEndStates

\* the test at the head of the word-end loop of getSentenceEnd
WordEndAllowed(c, forceRoot, weh) ==
  IF forceRoot # 0 THEN weh.transitState = forceRoot
  ELSE \/ weh.transitState = rootState
       \/ weh.transitState = ciRootState
       \/ weh.transitState \in c.uncoarticulatedWordEndStates

\* leaves the acoustic score relative to the rescaled origin
SentenceEndTraceRelative(ctx, weh, time) ==
  The({ [Trace(weh.trace, 0, time,
               ScoreVector(weh.score.acoustic,
                           hs.lm + sentenceEndScore(hs.history)))
           EXCEPT !.predecessor = [kind |-> "trace", trace |-> weh.trace]] :
        hs \in {addLemmaScores([history |-> weh.history, lm |-> weh.score.lm],
                               ctx.suffix)} })

\* the sentence-end trace of one word-end hypothesis
SentenceEndTrace(ctx, weh, time) ==
  The({ [Trace(weh.trace, 0, time,
               ScoreVector(weh.score.acoustic + globalScoreOffset_,
                           hs.lm + sentenceEndScore(hs.history)))
           EXCEPT !.predecessor = [kind |-> "trace", trace |-> weh.trace]] :
        hs \in {addLemmaScores([history |-> weh.history, lm |-> weh.score.lm],
                               ctx.suffix)} })

\* a candidate trace t built from source joins the sentence-end traces:
\* it becomes the best when wins holds, else a sibling of the best;
\* g = [created, sources, best, bestScore, failed]; created holds the new
\* traces (siblings are positions in created), sources the hypothesis each
\* of them was built from
AddSentenceEnd(c, g, t, source, wins) ==
  LET n == Len(g.created) + 1
  IN IF wins
       THEN [g EXCEPT
               !.created = Append(g.created,
                  [t EXCEPT !.sibling =
                     IF c.shallCreateLattice THEN g.best ELSE 0]),
               !.sources = Append(g.sources, source),
               !.best = n,
               !.bestScore = Total(t.score)]
       ELSE IF c.shallCreateLattice
         THEN IF g.best = 0
                THEN [g EXCEPT !.failed = TRUE,
                               !.sources = Append(g.sources, source)]
              ELSE [g EXCEPT
                      !.created = Append(
                         [g.created EXCEPT ![g.best].sibling = n],
                         [t EXCEPT !.sibling = g.created[g.best].sibling]),
                      !.sources = Append(g.sources, source)]
         ELSE [g EXCEPT !.created = Append(g.created, t),
                        !.sources = Append(g.sources, source)]

\* one round of the word-end loop of getSentenceEnd
SentenceEndWordEnds(c, ctx, forceRoot, g, wehs, k, time) ==
  IF WordEndAllowed(c, forceRoot, wehs[k])
    THEN The({ AddSentenceEnd(c, g, t, <<"weh", k>>,
                 g.best = 0 \/ Total(g.created[g.best].score) > Total(t.score)) :
               t \in {SentenceEndTrace(ctx, wehs[k], time)} })
    ELSE g

\* the test at the head of the state loop of getSentenceEnd
StateAllowed(c, forceRoot, hyp) ==
  IF forceRoot # 0 THEN hyp.state = forceRoot
  ELSE hyp.state \in c.uncoarticulatedWordEndStates

\* the sentence-end trace of one state hypothesis of the instance at
SentenceEndStateTrace(ctx, at, hyp, time) ==
  LET item == traceItem(hyp.trace)
      pre == traces[item.trace].score
      scores == [pre EXCEPT !.acoustic = hyp.score + globalScoreOffset_
                                           - pre.lm - at.totalBackOffOffset]
  IN The({ Trace([kind |-> "epsilon", trace |-> item.trace,
                  time |-> time - 1, score |-> scores], 0, time,
                 ScoreVector(scores.acoustic,
                             hs.lm + sentenceEndScore(hs.history))) :
           hs \in {addLemmaScores([history |-> item.history, lm |-> scores.lm],
                                  ctx.suffix)} })

RECURSIVE SentenceEndStates(_, _, _, _, _, _, _, _)
SentenceEndStates(c, ctx, forceRoot, g, at, from, to, time) ==
  IF from >= to THEN g
  ELSE The({ SentenceEndStates(c, ctx, forceRoot, g2, at, from + 1, to, time) :
             g2 \in { IF StateAllowed(c, forceRoot, stateHypotheses[from + 1])
                        THEN The({ AddSentenceEnd(c, g, t, <<"state", from>>,
                                                  Total(t.score) < g.bestScore) :
                                   t \in {SentenceEndStateTrace(ctx, at,
                                            stateHypotheses[from + 1], time)} })
                        ELSE g } })

SentenceEndInstances(c, ctx, forceRoot, g, k, time) ==
  The({ SentenceEndStates(c, ctx, forceRoot, g, at, at.states.begin,
                          at.states.end, time) :
        at \in {instances[activeInstances[k]]} })

getSentenceEnd ==
  /\ pc = "feed"
  /\ ~failed
  /\ \E ctx \in RecognitionContexts :
     \E root \in {IF ctx.finalCoarticulation # <<term, term>>
                    THEN rootForCoarticulation(ctx.finalCoarticulation)
                    ELSE [state |-> 0, failed |-> FALSE]} :
     \E g1 \in {Rounds(LAMBDA x, k :
                         SentenceEndWordEnds(cfg, ctx, root.state, x,
                                             wordEndHypotheses, k, timeFrame_),
                       [created |-> <<>>, sources |-> <<>>, best |-> 0,
                        bestScore |-> ScoreMax, failed |-> FALSE],
                       1, Len(wordEndHypotheses))} :
     \E g2 \in {IF cfg.uncoarticulatedWordEndStates # {}
                  THEN Rounds(LAMBDA x, k :
                                SentenceEndInstances(cfg, ctx, root.state, x,
                                                     k, timeFrame_),
                              g1, 1, Len(activeInstances))
                  ELSE g1} :
          /\ failed' = \/ root.failed
                       \/ ~(\/ root.state = 0
                            \/ cfg.uncoarticulatedWordEndStates # {}
                            \/ root.state \in coarticulatedRootStates)
                       \/ g2.failed
          /\ hadWordEnd_' = (g2.best # 0)
          /\ sentenceEnd' = [call |-> "getSentenceEnd", context |-> ctx,
                             forceRoot |-> root.state,
                             null |-> g2.best = 0, best |-> g2.best,
                             created |-> g2.created, sources |-> g2.sources]
  /\ pc' = "ended"
  /\ UNCHANGED <<cfg, timeFrame_, scorer_, arenaVars, instanceVars,
                 wordEndVars, traceVars, scoreVars, histogramPruned,
                 ghostVars>>

\* bestScoreStateHypothesis: position of the first hypothesis with the
\* lowest score (the first position when no score is below the maximum)
bestScoreStateHypothesis ==
  The({ IF below = {} THEN 0
        ELSE (CHOOSE i \in below :
                \A j \in below :
                  \/ stateHypotheses[i].score < stateHypotheses[j].score
                  \/ /\ stateHypotheses[i].score = stateHypotheses[j].score
                     /\ i <= j) - 1 :
        below \in {{i \in 1 .. Len(stateHypotheses) :
                      stateHypotheses[i].score < ScoreMax}} })

\* one round of the loop of getSentenceEndFallBack over the active
\* instances: the trace is made in the instance that holds the best
\* hypothesis
FallBackInstances(ctx, best, bestHypIndex, k, time) ==
  LET at == instances[activeInstances[k]]
      bestHyp == stateHypotheses[bestHypIndex + 1]
      item == traceItem(bestHyp.trace)
      pre == traces[item.trace]
  IN IF bestHypIndex >= at.states.begin /\ bestHypIndex < at.states.end
       THEN The({ <<[Trace([kind |-> "trace", trace |-> item.trace], 0, time,
                           ScoreVector(globalScoreOffset_ + bestHyp.score
                                         - pre.score.lm,
                                       hs.lm + sentenceEndScore(hs.history)))
                       EXCEPT !.sibling = 0]>> :
                  hs \in {addLemmaScores([history |-> item.history,
                                          lm |-> pre.score.lm], ctx.suffix)} })
       ELSE best

getSentenceEndFallBack ==
  /\ pc = "ended"
  /\ ~failed
  /\ sentenceEnd.null
  /\ \E bestHypIndex \in {bestScoreStateHypothesis} :
     \E best \in {IF stateHypotheses = <<>> THEN <<>>
                  ELSE Rounds(LAMBDA x, k :
                                FallBackInstances(sentenceEnd.context, x,
                                                  bestHypIndex, k, timeFrame_),
                              <<>>, 1, Len(activeInstances))} :
        /\ failed' = (stateHypotheses # <<>> /\ best = <<>>)
        /\ sentenceEnd' = [call |-> "getSentenceEndFallBack",
                           context |-> sentenceEnd.context,
                           forceRoot |-> sentenceEnd.forceRoot,
                           null |-> best = <<>>,
                           best |-> IF best = <<>> THEN 0 ELSE 1,
                           created |-> best,
                           sources |-> IF best = <<>> THEN <<>>
                                       ELSE <<<<"state", bestHypIndex>>>>]
  /\ pc' = "done"
  /\ UNCHANGED <<cfg, timeFrame_, scorer_, arenaVars, instanceVars,
                 wordEndVars, traceVars, scoreVars, hadWordEnd_,
                 histogramPruned, ghostVars>>

Init ==
  /\ cfg \in Configurations
  /\ timeFrame_ = 0
  /\ scorer_ = [s \in States |-> 0]
  /\ stateHypotheses = <<>>
  /\ newStateHypotheses = <<>>
  /\ stateHypothesisRecombinationArray = [s \in 0 .. (StateCount - 1) |-> 0]
  /\ currentTreeFirstNewStateHypothesis = 0
  /\ activeInstances = <<>>
  /\ instances = <<>>
  /\ activeInstanceMap = <<>>
  /\ instanceCount = 0
  /\ lookaheadCache = {}
  /\ currentLookaheadInstanceStateThreshold_ = cfg.fullLookAheadStateMinimum
  /\ earlyWordEndHypotheses = <<>>
  /\ wordEndHypotheses = <<>>
  /\ traces = <<>>
  /\ traceItems = <<>>
  /\ bestProspect_ = ScoreMax
  /\ bestScore_ = ScoreMax
  /\ minWordEndScore_ = ScoreMax
  /\ globalScoreOffset_ = 0
  /\ hadWordEnd_ = FALSE
  /\ histogramPruned = [applied |-> FALSE, before |-> <<>>]
  /\ sentenceEnd = [call |-> "none"]
  /\ passRanges = <<>>
  /\ stepOrder = <<>>
  /\ emptyFrames = <<>>
  /\ recombineInput = [wehs |-> <<>>, traces |-> <<>>]
  /\ incoming = <<>>
  /\ beamRun = [input |-> <<>>, narrow |-> <<>>, wide |-> <<>>, t1 |-> 0, t2 |-> 0]
  /\ expandRun = [hyp |-> <<>>, fast |-> <<>>, slow |-> <<>>]
  /\ lookaheadRun = <<>>
  /\ pruningRun = [call |-> "none"]
  /\ rootRun = [call |-> "none"]
  /\ NoLanguageModel
  /\ failed = FALSE
  /\ pc = "start"

\* clear() after the last frame of a segment, when its result was read:
\* every active instance loses its back-off links and is deleted, the
\* lists, the map, the scores and the traces are reset; the time frame stays
clear ==
  /\ pc = "ended"
  /\ ~failed
  /\ timeFrame_ >= MaxFrames
  /\ hadWordEnd_' = FALSE
  /\ currentLookaheadInstanceStateThreshold_' = cfg.fullLookAheadStateMinimum
  /\ scorer_' = [s \in States |-> 0]
  /\ globalScoreOffset_' = 0
  /\ stateHypotheses' = <<>>
  /\ newStateHypotheses' = <<>>
  /\ instances' =
       Rounds(LAMBDA insts, t :
                DeleteInstance([insts EXCEPT
                                  ![activeInstances[t]].backOffInstance = 0,
                                  ![activeInstances[t]].backOffParent = 0],
                               activeInstances[t]),
              instances, 1, Len(activeInstances))
  /\ activeInstanceMap' = <<>>
  /\ activeInstances' = <<>>
  /\ wordEndHypotheses' = <<>>
  /\ earlyWordEndHypotheses' = <<>>
  /\ bestProspect_' = ScoreMax
  /\ bestScore_' = ScoreMax
  /\ minWordEndScore_' = ScoreMax
  /\ traces' = <<>>
  /\ traceItems' = <<>>
  /\ emptyFrames' = <<>>
  /\ pc' = "start"
  /\ UNCHANGED <<cfg, timeFrame_, stateHypothesisRecombinationArray,
                 currentTreeFirstNewStateHypothesis, instanceCount,
                 lookaheadCache, histogramPruned, sentenceEnd, passRanges,
                 stepOrder, recombineInput, incoming, beamRun, expandRun,
                 lookaheadRun, pruningRun, rootRun, lmVars,
                 failed>>

Next ==
  \/ addStartupWordEndHypothesis
  \/ setCurrentTimeFrame
  \/ startNewTrees
  \/ ExpandHmm
  \/ pruneAndAddScores
  \/ rescale
  \/ findWordEnds
  \/ pruneEarlyWordEnds
  \/ createTraces
  \/ recombineWordEnds
  \/ getSentenceEnd
  \/ getSentenceEndFallBack
  \/ clear

Spec == Init /\ [][Next]_vars

\* ------------------------------------- frames without acoustic contribution
\* setCurrentTimeFrame with a scorer that gives every state the score 0
setCurrentTimeFrameSilent ==
  /\ setCurrentTimeFrame
  /\ scorer_' = [s \in States |-> 0]

PathNext ==
  \/ addStartupWordEndHypothesis
  \/ setCurrentTimeFrameSilent
  \/ startNewTrees
  \/ ExpandHmm
  \/ pruneAndAddScores
  \/ rescale
  \/ findWordEnds
  \/ pruneEarlyWordEnds
  \/ createTraces
  \/ recombineWordEnds
  \/ getSentenceEnd
  \/ getSentenceEndFallBack

SpecPath == Init /\ [][PathNext]_vars

\* ------------------------------------------- the arena calls of one instance
\* hypotheses appended by the instances expanded earlier in the frame
ArenaPrefixes ==
  { <<>>,
    <<StateHypothesis(2, 1, 1)>>,
    <<StateHypothesis(2, 1, 1), StateHypothesis(3, 1, 2)>> }

ArenaScores == {1, 2, 3}

ArenaTargets == {2, 3, 4}

\* the slot of a state an earlier instance of the frame activated points at
\* that hypothesis; every other slot is stale
ArenaArray(prefix, stale) ==
  [s \in 0 .. (StateCount - 1) |->
     IF \E i \in DOMAIN prefix : prefix[i].state = s
       THEN (CHOOSE i \in DOMAIN prefix : prefix[i].state = s) - 1
     ELSE IF s \in DOMAIN stale THEN stale[s] ELSE 0]

ArenaInit ==
  /\ \E symmetrize \in BOOLEAN :
       cfg = [Configuration(DefaultPruning, DefaultLookahead, DefaultOther)
                EXCEPT !.symmetrizePenalties = symmetrize]
  /\ timeFrame_ = 1
  /\ scorer_ = [s \in States |-> 0]
  /\ stateHypotheses = <<>>
  /\ \E prefix \in ArenaPrefixes, stale \in [{2, 3} -> {0, 1, 9}] :
       /\ newStateHypotheses = prefix
       /\ stateHypothesisRecombinationArray = ArenaArray(prefix, stale)
       /\ currentTreeFirstNewStateHypothesis = Len(prefix)
  /\ activeInstances = <<>>
  /\ instances = <<>>
  /\ activeInstanceMap = <<>>
  /\ instanceCount = 0
  /\ lookaheadCache = {}
  /\ currentLookaheadInstanceStateThreshold_ = 0
  /\ earlyWordEndHypotheses = <<>>
  /\ wordEndHypotheses = <<>>
  /\ traces = <<>>
  /\ traceItems = <<>>
  /\ bestProspect_ = ScoreMax
  /\ bestScore_ = ScoreMax
  /\ minWordEndScore_ = ScoreMax
  /\ globalScoreOffset_ = 0
  /\ hadWordEnd_ = FALSE
  /\ histogramPruned = [applied |-> FALSE, before |-> <<>>]
  /\ sentenceEnd = [call |-> "none"]
  /\ passRanges = <<>>
  /\ stepOrder = <<>>
  /\ emptyFrames = <<>>
  /\ recombineInput = [wehs |-> <<>>, traces |-> <<>>]
  /\ incoming = <<>>
  /\ beamRun = [input |-> <<>>, narrow |-> <<>>, wide |-> <<>>, t1 |-> 0, t2 |-> 0]
  /\ expandRun = [hyp |-> <<>>, fast |-> <<>>, slow |-> <<>>]
  /\ lookaheadRun = <<>>
  /\ pruningRun = [call |-> "none"]
  /\ rootRun = [call |-> "none"]
  /\ NoLanguageModel
  /\ failed = FALSE
  /\ pc = "arena"

Arena == [nsh |-> newStateHypotheses, rec |-> stateHypothesisRecombinationArray]

\* one activation call took place: ar is the arena after it
ArenaCall(call, ar, target, score, trace) ==
  /\ \E a \in {ar} :
       /\ newStateHypotheses' = a.nsh
       /\ stateHypothesisRecombinationArray' = a.rec
  /\ incoming' = Append(incoming,
                        [call |-> call, state |-> target, score |-> score,
                         trace |-> trace])
  /\ UNCHANGED <<cfg, timeFrame_, scorer_, stateHypotheses,
                 currentTreeFirstNewStateHypothesis, instanceVars, wordEndVars,
                 traceVars, scoreVars, resultVars, passRanges, stepOrder,
                 emptyFrames, recombineInput, beamRun, expandRun, lookaheadRun,
                 pruningRun, rootRun, lmVars,
                 failed, pc>>

\* the trace of the next input: distinct for every call
NextTrace == 10 + Len(incoming)

ActivateLoop ==
  /\ pc = "arena"
  /\ Len(incoming) < MaxCalls
  /\ \E s \in ArenaTargets, score \in ArenaScores :
       ArenaCall("Loop", activateOrUpdateStateHypothesisLoop(Arena,
                   currentTreeFirstNewStateHypothesis,
                   StateHypothesis(s, NextTrace, score - 1), score),
                 s, score, NextTrace)

ActivateTransition ==
  /\ pc = "arena"
  /\ Len(incoming) < MaxCalls
  /\ \E s \in ArenaTargets, score \in ArenaScores :
       ArenaCall("Transition", activateOrUpdateStateHypothesisTransition(Arena,
                   currentTreeFirstNewStateHypothesis,
                   StateHypothesis(rootState, NextTrace, score - 1), score, s),
                 s, score, NextTrace)

ActivateDirectly ==
  /\ pc = "arena"
  /\ Len(incoming) < MaxCalls
  /\ \E s \in ArenaTargets, score \in ArenaScores :
       ArenaCall("Directly", activateOrUpdateStateHypothesisDirectly(Arena,
                   currentTreeFirstNewStateHypothesis,
                   StateHypothesis(s, NextTrace, score)),
                 s, score, NextTrace)

\* expandState<allowSkip> on one state hypothesis, and next to it what the
\* loop transition followed by expandStateSlow<true, allowSkip> makes of
\* the same arena
ExpandStateBothWays ==
  /\ pc = "arena"
  /\ Len(incoming) <= 1
  /\ \E s \in States, score \in {0, ScoreMax - 3, ScoreMax - 1},
        allowSkip \in BOOLEAN :
     \E hyp \in {StateHypothesis(s, NextTrace, score)} :
     \E fast \in {expandState(Arena, currentTreeFirstNewStateHypothesis, hyp,
                              allowSkip)} :
     \E looped \in {IF score + transitionModel(s).loop < ScoreMax
                       THEN activateOrUpdateStateHypothesisLoop(Arena,
                              currentTreeFirstNewStateHypothesis, hyp,
                              score + transitionModel(s).loop)
                       ELSE Arena} :
       /\ newStateHypotheses' = fast.nsh
       /\ stateHypothesisRecombinationArray' = fast.rec
       /\ expandRun' = [hyp |-> hyp, allowSkip |-> allowSkip,
                        before |-> Arena, fast |-> fast,
                        slow |-> expandStateSlow(looped,
                                   currentTreeFirstNewStateHypothesis, hyp,
                                   TRUE, allowSkip)]
  /\ pc' = "expanded"
  /\ UNCHANGED <<cfg, timeFrame_, scorer_, stateHypotheses,
                 currentTreeFirstNewStateHypothesis, instanceVars, wordEndVars,
                 traceVars, scoreVars, resultVars, passRanges, stepOrder,
                 emptyFrames, recombineInput, incoming, beamRun,
                 lookaheadRun, pruningRun, rootRun, lmVars, failed>>

ArenaNext ==
  \/ ActivateLoop
  \/ ActivateTransition
  \/ ActivateDirectly
  \/ ExpandStateBothWays

SpecArena == ArenaInit /\ [][ArenaNext]_vars

\* ------------------------------------------------------------------ claims
\* the ranges cover every index below size exactly once and add up to size
SumOfRanges(ranges) ==
  Rounds(LAMBDA sum, k : sum + (ranges[k].end - ranges[k].begin),
         0, 1, Len(ranges))

RangesTile(size, ranges) ==
  /\ \A k \in DOMAIN ranges :
       0 <= ranges[k].begin /\ ranges[k].begin <= ranges[k].end
         /\ ranges[k].end <= size
  /\ \A i \in 0 .. (size - 1) :
       Cardinality({k \in DOMAIN ranges :
                      ranges[k].begin <= i /\ i < ranges[k].end}) = 1
  /\ SumOfRanges(ranges) = size

ActiveRanges ==
  [k \in 1 .. Len(activeInstances) |-> instances[activeInstances[k]].states]

\* C1: after expandHmm and after every pruning pass of pruneAndAddScores the
\* ranges of the active instances are pairwise disjoint, cover every index
\* of stateHypotheses exactly once, and their sizes add up to the number of
\* state hypotheses.
C1_RangesCoverArena ==
  /\ pc \in {"prune", "rescale"} =>
       RangesTile(Len(stateHypotheses), ActiveRanges)
  /\ pc = "rescale" =>
       \A n \in DOMAIN passRanges :
         RangesTile(passRanges[n].size, passRanges[n].ranges)

\* several instances with hypotheses, a back-off instance among them; early
\* beam, beam and LM-state pruning ran and removed hypotheses
C1_Witness ==
  /\ pc = "rescale"
  /\ ~failed
  /\ {passRanges[n].pass : n \in DOMAIN passRanges} = {"early", "beam", "lmstate"}
  /\ passRanges[3].size < passRanges[1].size
  /\ Cardinality({k \in DOMAIN ActiveRanges :
                    ActiveRanges[k].begin < ActiveRanges[k].end}) >= 2
  /\ \E b \in DOMAIN activeInstances :
       /\ instances[activeInstances[b]].backOffParent # 0
       /\ ActiveRanges[b].begin < ActiveRanges[b].end

\* ------------------------------------------------------------- beam pruning
\* Beam pruning applied to one set of state hypotheses under two thresholds:
\* the hypotheses of two instances after an expansion, bestProspect_ the
\* minimum the expansion recorded.
BeamProspects == 0 .. 3

BeamThresholds == {0, 1, 2}

BeamHypotheses(prospects) ==
  [i \in 1 .. Len(prospects) |->
     [state |-> 1 + i, score |-> prospects[i], prospect |-> prospects[i],
      trace |-> i]]

BeamInstance(key, begin, end) ==
  [NewInstance(key, 0) EXCEPT !.states = [begin |-> begin, end |-> end]]

SeqMin(seq) ==
  CHOOSE x \in {seq[i] : i \in DOMAIN seq} :
    \A i \in DOMAIN seq : x <= seq[i]

BeamInit ==
  /\ \E t \in BeamThresholds :
       cfg = Configuration([DefaultPruning EXCEPT !.earlyBeamPruning = TRUE,
                                                  !.acousticPruning = t],
                           DefaultLookahead, DefaultOther)
  /\ timeFrame_ = 1
  /\ scorer_ = [s \in States |-> 0]
  /\ \E n \in 1 .. MaxBeamHyps : \E split \in 0 .. n :
       \E prospects \in [1 .. n -> BeamProspects] :
         /\ stateHypotheses = BeamHypotheses(prospects)
         /\ instances = <<BeamInstance(<<1>>, 0, split),
                          BeamInstance(<<2>>, split, n)>>
         /\ bestProspect_ = SeqMin(prospects)
         /\ bestScore_ = SeqMin(prospects)
  /\ newStateHypotheses = <<>>
  /\ stateHypothesisRecombinationArray = [s \in States |-> 0]
  /\ currentTreeFirstNewStateHypothesis = 0
  /\ activeInstances = <<1, 2>>
  /\ activeInstanceMap = [k \in {<<1>>, <<2>>} |-> Head(k)]
  /\ instanceCount = 2
  /\ lookaheadCache = {}
  /\ currentLookaheadInstanceStateThreshold_ = 0
  /\ earlyWordEndHypotheses = <<>>
  /\ wordEndHypotheses = <<>>
  /\ traces = <<>>
  /\ traceItems = <<>>
  /\ minWordEndScore_ = ScoreMax
  /\ globalScoreOffset_ = 0
  /\ hadWordEnd_ = FALSE
  /\ histogramPruned = [applied |-> FALSE, before |-> <<>>]
  /\ sentenceEnd = [call |-> "none"]
  /\ passRanges = <<>>
  /\ stepOrder = <<>>
  /\ emptyFrames = <<>>
  /\ recombineInput = [wehs |-> <<>>, traces |-> <<>>]
  /\ incoming = <<>>
  /\ beamRun = [input |-> <<>>, narrow |-> <<>>, wide |-> <<>>, t1 |-> 0, t2 |-> 0]
  /\ expandRun = [hyp |-> <<>>, fast |-> <<>>, slow |-> <<>>]
  /\ lookaheadRun = <<>>
  /\ pruningRun = [call |-> "none"]
  /\ rootRun = [call |-> "none"]
  /\ NoLanguageModel
  /\ failed = FALSE
  /\ pc = "beam"

\* pruneStatesEarly with acousticPruning_ as configured; beamRun also holds
\* what the same call leaves under a threshold that is not smaller
pruneStatesEarly ==
  /\ pc = "beam"
  /\ \E t2 \in BeamThresholds :
       /\ cfg.acousticPruning <= t2
       /\ \E p0 \in {PruneWorld} :
          \E narrow \in {pruneStates(cfg, p0, bestProspect_,
                                     cfg.acousticPruning)},
             wide \in {pruneStates(cfg, p0, bestProspect_, t2)} :
             /\ stateHypotheses' = narrow.hyps
             /\ instances' = narrow.insts
             /\ activeInstances' = narrow.active
             /\ activeInstanceMap' = narrow.map
             /\ failed' = narrow.failed \/ wide.failed
             /\ beamRun' = [input |-> stateHypotheses, narrow |-> narrow.hyps,
                            wide |-> wide.hyps, t1 |-> cfg.acousticPruning,
                            t2 |-> t2]
  /\ pc' = "beamed"
  /\ UNCHANGED <<cfg, timeFrame_, scorer_, newStateHypotheses,
                 stateHypothesisRecombinationArray,
                 currentTreeFirstNewStateHypothesis, instanceCount,
                 lookaheadCache, currentLookaheadInstanceStateThreshold_,
                 wordEndVars, traceVars, scoreVars, resultVars, passRanges,
                 stepOrder, emptyFrames, recombineInput, incoming, expandRun,
                 lookaheadRun, pruningRun, rootRun, lmVars>>

SpecBeam == BeamInit /\ [][pruneStatesEarly]_vars

\* ------------------------------------------------- recombination of a list
\* recombineWordEnds applied to a word-end list as createTraces leaves it:
\* every hypothesis came through an exit of the network after a two-word
\* history and has a trace of its own without sibling.
WordEndCandidates ==
  [exit : 0 .. 3,
   score : {ScoreVector(1, 1), ScoreVector(2, 0), ScoreVector(1, 0)}]

WordEndList(cands) ==
  [k \in 1 .. Len(cands) |->
     LET e == exits(cands[k].exit)
         h == extendedHistory(<<1, 1>>, Lemma(e.pronunciation))
     IN WordEndHypothesis(h, h, e.transitState, e.pronunciation,
                          cands[k].score, k + 1, cands[k].exit)]

WordEndTraces(cands) ==
  <<Trace(0, 0, 0, ScoreVector(0, 0))>>
    \o [k \in 1 .. Len(cands) |->
          Trace(1, exits(cands[k].exit).pronunciation, 1, cands[k].score)]

WordEndsInit ==
  /\ \E lattice \in BOOLEAN :
       cfg = Configuration(DefaultPruning, DefaultLookahead,
                           [DefaultOther EXCEPT !.shallCreateLattice = lattice])
  /\ timeFrame_ = 0
  /\ scorer_ = [s \in States |-> 0]
  /\ stateHypotheses = <<>>
  /\ newStateHypotheses = <<>>
  /\ stateHypothesisRecombinationArray = [s \in States |-> 0]
  /\ currentTreeFirstNewStateHypothesis = 0
  /\ activeInstances = <<>>
  /\ instances = <<>>
  /\ activeInstanceMap = <<>>
  /\ instanceCount = 0
  /\ lookaheadCache = {}
  /\ currentLookaheadInstanceStateThreshold_ = 0
  /\ earlyWordEndHypotheses = <<>>
  /\ \E n \in 0 .. MaxWordEnds : \E cands \in [1 .. n -> WordEndCandidates] :
       /\ wordEndHypotheses = WordEndList(cands)
       /\ traces = WordEndTraces(cands)
  /\ traceItems = <<>>
  /\ bestProspect_ = ScoreMax
  /\ bestScore_ = ScoreMax
  /\ minWordEndScore_ = ScoreMax
  /\ globalScoreOffset_ = 0
  /\ hadWordEnd_ = FALSE
  /\ histogramPruned = [applied |-> FALSE, before |-> <<>>]
  /\ sentenceEnd = [call |-> "none"]
  /\ passRanges = <<>>
  /\ stepOrder = <<>>
  /\ emptyFrames = <<>>
  /\ recombineInput = [wehs |-> <<>>, traces |-> <<>>]
  /\ incoming = <<>>
  /\ beamRun = [input |-> <<>>, narrow |-> <<>>, wide |-> <<>>, t1 |-> 0, t2 |-> 0]
  /\ expandRun = [hyp |-> <<>>, fast |-> <<>>, slow |-> <<>>]
  /\ lookaheadRun = <<>>
  /\ pruningRun = [call |-> "none"]
  /\ rootRun = [call |-> "none"]
  /\ NoLanguageModel
  /\ failed = FALSE
  /\ pc = "list"

recombineWordEndsOnce == RecombineStep("list", "once")

recombineWordEndsAgain == RecombineStep("once", "twice")

WordEndsNext == recombineWordEndsOnce \/ recombineWordEndsAgain

SpecWordEnds == WordEndsInit /\ [][WordEndsNext]_vars

\* ---------------------------------------------------------- pruning control
\* lm_->scale()
LmScale == 2

minimumBeamPruning_ == 2

maximumBeamPruning_ == 10

minimumAcousticPruningLimit_ == 1

maximumAcousticPruningLimit_ == 8

\* beamPruning(): the beam relative to the LM scale
beamPruning(c) == c.acousticPruning \div LmScale

\* factors <<numerator, denominator>> and offsets of relaxPruning calls
RelaxFactors == {<<1, 2>>, <<1, 1>>, <<3, 2>>, <<2, 1>>}

RelaxOffsets == {-1, 0, 1}

\* the beams a recognition can be configured with
InitialBeams == {2, 5, 9, 10}

\* v * factor, rounded down to the grid of the model
Times(v, factor) == (v * factor[1]) \div factor[2]

\* setMasterBeam: the master pruning takes the value, the pruning
\* thresholds that are set follow in proportion; g = [cfg, failed]
setMasterBeam(c, value) ==
  IF c.histogramPruningIsMasterPruning
    THEN [cfg |-> [c EXCEPT !.acousticPruningLimit = value \div LmScale,
                            !.wordEndPruningLimit =
                               IF /\ value \div LmScale # c.acousticPruningLimit
                                  /\ @ < c.acousticPruningLimit
                                 THEN (@ * (value \div LmScale))
                                        \div c.acousticPruningLimit
                                 ELSE @],
          failed |-> FALSE]
    ELSE [cfg |-> [c EXCEPT !.acousticPruning = value,
                            !.wordEndPruning =
                               IF @ < ScoreMax /\ c.acousticPruning # 0
                                 THEN (@ * value) \div c.acousticPruning
                                 ELSE @,
                            !.lmStatePruning =
                               IF @ < ScoreMax /\ c.acousticPruning # 0
                                 THEN (@ * value) \div c.acousticPruning
                                 ELSE @,
                            !.wordEndPhonemePruningThreshold =
                               IF @ < ScoreMax /\ c.acousticPruning # 0
                                 THEN (@ * value) \div c.acousticPruning
                                 ELSE @],
          failed |-> c.acousticPruning >= ScoreMax \/ value = 0]

\* describePruning: the master beam as a PruningDesc; short tells that an
\* average of the last segment is below its minimum or that there was no
\* word end. The beam is held in units of 1 / LmScale: a division by the
\* scale 2 and the multiplication that resetPruning makes are exact
describePruning(c, short) ==
  [beam |-> IF c.histogramPruningIsMasterPruning
              THEN c.acousticPruningLimit * LmScale
              ELSE c.acousticPruning,
   searchSpaceOK |-> ~short]

\* resetPruning(pruning): [cfg, failed]
resetPruning(c, pruning) ==
  IF pruning.beam = ScoreMax THEN [cfg |-> c, failed |-> TRUE]
  ELSE setMasterBeam(c, pruning.beam)

\* relaxPruning(factor, offset); hit tells which of the averages of the
\* last segment are above their maximum; the result is [cfg, failed, ret]
relaxPruning(c, factor, offset, hit) ==
  LET unchanged == [cfg |-> c, failed |-> FALSE, ret |-> FALSE]
      limit == c.acousticPruningLimit
      tighter == factor[1] < factor[2] \/ offset < 0
      looser == factor[1] > factor[2] \/ offset > 0
  IN IF c.histogramPruningIsMasterPruning
       THEN IF limit * factor[1] + offset * factor[2]
                 <= minimumAcousticPruningLimit_ * factor[2]
              THEN unchanged
            ELSE IF limit >= maximumAcousticPruningLimit_ THEN unchanged
            ELSE The({ [cfg |-> g.cfg, failed |-> g.failed, ret |-> TRUE] :
                       g \in {setMasterBeam(
                                c, Min(Times(limit, factor) + offset,
                                       maximumAcousticPruningLimit_)
                                     * LmScale)} })
     ELSE IF beamPruning(c) >= maximumBeamPruning_ THEN unchanged
     ELSE IF /\ c.acousticPruning < ScoreMax
             /\ tighter
             /\ c.acousticPruning * factor[1] + offset * LmScale * factor[2]
                  < minimumBeamPruning_ * LmScale * factor[2]
       THEN unchanged
     ELSE IF looser /\ hit THEN unchanged
     ELSE The({ [cfg |-> g.cfg, failed |-> g.failed, ret |-> TRUE] :
                g \in {setMasterBeam(c, Times(c.acousticPruning, factor)
                                          + offset * LmScale)} })

\* word-end pruning of a recognition: not set, or beam, limit and
\* first-phoneme threshold
WordEndBeams ==
  { [beam |-> ScoreMax, limit |-> ScoreMax, phoneme |-> ScoreMax],
    [beam |-> 4, limit |-> 3, phoneme |-> 2] }

\* a recognition between two segments, with a beam of beams and the
\* word-end pruning of words
PruningStart(beams, words) ==
  /\ \E b \in beams, l \in {3, ScoreMax}, n \in {2, 4},
        master \in BOOLEAN, w \in words :
       cfg = [Configuration([DefaultPruning
                               EXCEPT !.acousticPruning = b * LmScale,
                                      !.lmStatePruning = l,
                                      !.acousticPruningLimit = n],
                            DefaultLookahead, DefaultOther)
                EXCEPT !.histogramPruningIsMasterPruning = master,
                       !.wordEndPruning = w.beam,
                       !.wordEndPruningLimit = w.limit,
                       !.wordEndPhonemePruningThreshold = w.phoneme]
  /\ timeFrame_ = 0
  /\ scorer_ = [s \in States |-> 0]
  /\ stateHypotheses = <<>>
  /\ newStateHypotheses = <<>>
  /\ stateHypothesisRecombinationArray = [s \in States |-> 0]
  /\ currentTreeFirstNewStateHypothesis = 0
  /\ activeInstances = <<>>
  /\ instances = <<>>
  /\ activeInstanceMap = <<>>
  /\ instanceCount = 0
  /\ lookaheadCache = {}
  /\ currentLookaheadInstanceStateThreshold_ = 0
  /\ earlyWordEndHypotheses = <<>>
  /\ wordEndHypotheses = <<>>
  /\ traces = <<>>
  /\ traceItems = <<>>
  /\ bestProspect_ = ScoreMax
  /\ bestScore_ = ScoreMax
  /\ minWordEndScore_ = ScoreMax
  /\ globalScoreOffset_ = 0
  /\ hadWordEnd_ = FALSE
  /\ histogramPruned = [applied |-> FALSE, before |-> <<>>]
  /\ sentenceEnd = [call |-> "none"]
  /\ passRanges = <<>>
  /\ stepOrder = <<>>
  /\ emptyFrames = <<>>
  /\ recombineInput = [wehs |-> <<>>, traces |-> <<>>]
  /\ incoming = <<>>
  /\ beamRun = [input |-> <<>>, narrow |-> <<>>, wide |-> <<>>, t1 |-> 0, t2 |-> 0]
  /\ expandRun = [hyp |-> <<>>, fast |-> <<>>, slow |-> <<>>]
  /\ lookaheadRun = <<>>
  /\ pruningRun = [call |-> "none", snapshot |-> <<>>]
  /\ rootRun = [call |-> "none"]
  /\ NoLanguageModel
  /\ failed = FALSE
  /\ pc = "pruning"

\* a call of relaxPruning between two segments
RelaxPruning ==
  /\ pc = "pruning"
  /\ ~failed
  /\ \E factor \in RelaxFactors, offset \in RelaxOffsets, hit \in BOOLEAN :
     \E r \in {relaxPruning(cfg, factor, offset, hit)} :
       /\ cfg' = r.cfg
       /\ failed' = r.failed
       /\ pruningRun' = [call |-> "relaxPruning", factor |-> factor,
                         offset |-> offset, ret |-> r.ret, before |-> cfg,
                         snapshot |-> pruningRun.snapshot]
  /\ UNCHANGED <<timeFrame_, scorer_, arenaVars, instanceVars, wordEndVars,
                 traceVars, scoreVars, resultVars, passRanges, stepOrder,
                 emptyFrames, recombineInput, incoming, beamRun, expandRun,
                 lookaheadRun, rootRun, lmVars, pc>>

PruningInit ==
  PruningStart(InitialBeams,
               {[beam |-> ScoreMax, limit |-> ScoreMax, phoneme |-> ScoreMax]})

SpecPruning == PruningInit /\ [][RelaxPruning]_vars

\* the controller takes a snapshot with describePruning before it changes
\* the pruning and keeps it; the settings at that time are recorded next
\* to it
DescribePruning ==
  /\ pc = "pruning"
  /\ ~failed
  /\ pruningRun.call = "none"
  /\ pruningRun.snapshot = <<>>
  /\ \E short \in BOOLEAN :
       pruningRun' = [call |-> "describePruning",
                      snapshot |-> <<[pruning |-> describePruning(cfg, short),
                                      taken |-> cfg]>>]
  /\ UNCHANGED <<cfg, timeFrame_, scorer_, arenaVars, instanceVars,
                 wordEndVars, traceVars, scoreVars, resultVars, passRanges,
                 stepOrder, emptyFrames, recombineInput, incoming, beamRun,
                 expandRun, lookaheadRun, rootRun, lmVars, failed, pc>>

\* resetPruning with the snapshot the controller holds
ResetPruning ==
  /\ pc = "pruning"
  /\ ~failed
  /\ pruningRun.snapshot # <<>>
  /\ \E r \in {resetPruning(cfg, pruningRun.snapshot[1].pruning)} :
       /\ cfg' = r.cfg
       /\ failed' = r.failed
  /\ pruningRun' = [call |-> "resetPruning", before |-> cfg,
                    snapshot |-> pruningRun.snapshot]
  /\ UNCHANGED <<timeFrame_, scorer_, arenaVars, instanceVars, wordEndVars,
                 traceVars, scoreVars, resultVars, passRanges, stepOrder,
                 emptyFrames, recombineInput, incoming, beamRun, expandRun,
                 lookaheadRun, rootRun, lmVars, pc>>

SnapshotNext == RelaxPruning \/ DescribePruning \/ ResetPruning

SnapshotBeams == {5}

SnapshotInit == PruningStart(SnapshotBeams, WordEndBeams)

SpecSnapshot == SnapshotInit /\ [][SnapshotNext]_vars

\* ------------------------------------------------------------- root lookup
\* networks for the root lookup: the states that can be coarticulated roots
\* and the phoneme pairs of their transit descriptions
RootCandidates == {5, 6, 7}

RootPairs == {<<7, 8>>, <<8, 7>>, <<term, 7>>}

RootNetworks ==
  UNION {[roots -> RootPairs] : roots \in SUBSET RootCandidates}

RootInit ==
  /\ cfg = Configuration(DefaultPruning, DefaultLookahead, DefaultOther)
  /\ \E descriptions \in RootNetworks,
        coarticulation \in RootPairs \cup {<<term, term>>} :
       rootRun = [call |-> "none", descriptions |-> descriptions,
                  coarticulation |-> coarticulation]
  /\ NoLanguageModel
  /\ timeFrame_ = 0
  /\ scorer_ = [s \in States |-> 0]
  /\ stateHypotheses = <<>>
  /\ newStateHypotheses = <<>>
  /\ stateHypothesisRecombinationArray = [s \in States |-> 0]
  /\ currentTreeFirstNewStateHypothesis = 0
  /\ activeInstances = <<>>
  /\ instances = <<>>
  /\ activeInstanceMap = <<>>
  /\ instanceCount = 0
  /\ lookaheadCache = {}
  /\ currentLookaheadInstanceStateThreshold_ = 0
  /\ earlyWordEndHypotheses = <<>>
  /\ wordEndHypotheses = <<>>
  /\ traces = <<>>
  /\ traceItems = <<>>
  /\ bestProspect_ = ScoreMax
  /\ bestScore_ = ScoreMax
  /\ minWordEndScore_ = ScoreMax
  /\ globalScoreOffset_ = 0
  /\ hadWordEnd_ = FALSE
  /\ histogramPruned = [applied |-> FALSE, before |-> <<>>]
  /\ sentenceEnd = [call |-> "none"]
  /\ passRanges = <<>>
  /\ stepOrder = <<>>
  /\ emptyFrames = <<>>
  /\ recombineInput = [wehs |-> <<>>, traces |-> <<>>]
  /\ incoming = <<>>
  /\ beamRun = [input |-> <<>>, narrow |-> <<>>, wide |-> <<>>, t1 |-> 0, t2 |-> 0]
  /\ expandRun = [hyp |-> <<>>, fast |-> <<>>, slow |-> <<>>]
  /\ lookaheadRun = <<>>
  /\ pruningRun = [call |-> "none"]
  /\ failed = FALSE
  /\ pc = "root"

\* a call of rootForCoarticulation with encode-state off
RootForCoarticulation ==
  /\ pc = "root"
  /\ \E r \in {rootForCoarticulationIn(rootRun.descriptions,
                                       rootRun.coarticulation)} :
       /\ rootRun' = [rootRun EXCEPT !.call = "rootForCoarticulation"]
                       @@ [state |-> r.state]
       /\ failed' = r.failed
  /\ pc' = "rooted"
  /\ UNCHANGED <<cfg, timeFrame_, scorer_, arenaVars, instanceVars,
                 wordEndVars, traceVars, scoreVars, resultVars, passRanges,
                 stepOrder, emptyFrames, recombineInput, incoming, beamRun,
                 expandRun, lookaheadRun, pruningRun, lmVars>>

SpecRoot == RootInit /\ [][RootForCoarticulation]_vars

\* the hypotheses of the instance being expanded
SliceIndices ==
  (currentTreeFirstNewStateHypothesis + 1) .. Len(newStateHypotheses)

SliceOf(s) == {i \in SliceIndices : newStateHypotheses[i].state = s}

IncomingFor(s) == {n \in DOMAIN incoming : incoming[n].state = s}

LowestIncoming(s) ==
  {n \in IncomingFor(s) :
     \A m \in IncomingFor(s) : incoming[n].score <= incoming[m].score}

\* C2: within the expansion of one instance, after any sequence of
\* activateOrUpdateStateHypothesisLoop / Transition / Directly calls the
\* slice of the instance holds at most one hypothesis per state, and when
\* the incoming scores for a state are all different that hypothesis has the
\* lowest incoming score and the trace of the input with that score.
C2_RecombinationKeepsLowest ==
  pc = "arena" =>
    \A s \in States :
      /\ Cardinality(SliceOf(s)) <= 1
      /\ IncomingFor(s) # {} =>
           /\ Cardinality(SliceOf(s)) = 1
           /\ (\A n, m \in IncomingFor(s) :
                  n # m => incoming[n].score # incoming[m].score)
                => \A i \in SliceOf(s) : \A n \in LowestIncoming(s) :
                     /\ newStateHypotheses[i].score = incoming[n].score
                     /\ newStateHypotheses[i].trace = incoming[n].trace

\* three inputs with different scores for one state, the lowest neither
\* first nor last, through a Transition call
C2_Witness ==
  /\ pc = "arena"
  /\ \E s \in States :
       /\ Cardinality(IncomingFor(s)) = 3
       /\ \A n, m \in IncomingFor(s) :
            n # m => incoming[n].score # incoming[m].score
       /\ LowestIncoming(s) = {2}
       /\ incoming[3].call = "Transition"

StaleSlot(s) ==
  LET r == stateHypothesisRecombinationArray[s] IN
  \/ r < currentTreeFirstNewStateHypothesis
  \/ r >= Len(newStateHypotheses)
  \/ newStateHypotheses[r + 1].state # s

\* C4: a stale slot of the recombination array (an index outside the window
\* of the current instance, or one whose hypothesis has another state) is
\* treated as absent: the call appends a hypothesis and changes no existing
\* one; no call changes a hypothesis of an earlier instance or of a state
\* other than its target.
C4_StaleSlotIsAbsent ==
  [][(pc = "arena" /\ Len(incoming') = Len(incoming) + 1) =>
       LET in == incoming'[Len(incoming')]
           old == newStateHypotheses
           new == newStateHypotheses'
       IN /\ StaleSlot(in.state) =>
               /\ Len(new) = Len(old) + 1
               /\ SubSeq(new, 1, Len(old)) = old
               /\ new[Len(new)].state = in.state
               /\ new[Len(new)].score = in.score
               /\ new[Len(new)].trace = in.trace
          /\ \A i \in DOMAIN old :
               new[i] # old[i] =>
                 /\ i > currentTreeFirstNewStateHypothesis
                 /\ old[i].state = in.state
                 /\ new[i].state = in.state]_vars

\* a hypothesis of an earlier instance and one of the current instance for
\* the same state, while a slot holds a value beyond the end of the array
C4_Witness ==
  /\ pc = "arena"
  /\ \E i \in 1 .. currentTreeFirstNewStateHypothesis : \E j \in SliceIndices :
       newStateHypotheses[i].state = newStateHypotheses[j].state
  /\ \E s \in States :
       stateHypothesisRecombinationArray[s] >= Len(newStateHypotheses)
  /\ Len(incoming) = MaxCalls

Members(seq) == {seq[i] : i \in DOMAIN seq}

\* C5: beam pruning is monotone in its threshold: on the same state
\* hypotheses and for thresholds T2 >= T1, pruneStates with T1 retains
\* exactly the hypotheses whose prospect does not exceed bestProspect + T1,
\* in their order, and each of them is also retained with T2.
C5_BeamMonotone ==
  pc = "beamed" =>
    /\ beamRun.t1 <= beamRun.t2
    /\ ~failed
    /\ Members(beamRun.narrow) =
         {h \in Members(beamRun.input) :
            h.prospect <= SeqMin([i \in DOMAIN beamRun.input |->
                                    beamRun.input[i].prospect]) + beamRun.t1}
    /\ \A i, j \in DOMAIN beamRun.narrow :
         i < j => beamRun.narrow[i].trace < beamRun.narrow[j].trace
    /\ Members(beamRun.narrow) \subseteq Members(beamRun.wide)

\* the narrow threshold drops a hypothesis that the wide one keeps, and
\* neither keeps everything
C5_Witness ==
  /\ pc = "beamed"
  /\ beamRun.t1 < beamRun.t2
  /\ Len(beamRun.narrow) < Len(beamRun.wide)
  /\ Len(beamRun.wide) < Len(beamRun.input)
  /\ beamRun.narrow # <<>>

RecombinationKey(weh) == <<weh.history, weh.transitState>>

InputKeys == {RecombinationKey(recombineInput.wehs[k]) :
                k \in DOMAIN recombineInput.wehs}

InputsWithKey(key) ==
  {k \in DOMAIN recombineInput.wehs :
     RecombinationKey(recombineInput.wehs[k]) = key}

BestInputsWithKey(key) ==
  {k \in InputsWithKey(key) :
     \A m \in InputsWithKey(key) :
       Total(recombineInput.wehs[k].score) <= Total(recombineInput.wehs[m].score)}

InputHasDuplicates ==
  \E k, m \in DOMAIN recombineInput.wehs :
    k # m /\ RecombinationKey(recombineInput.wehs[k])
               = RecombinationKey(recombineInput.wehs[m])

Recombined == pc \in {"once", "twice"}

\* C7: after recombineWordEnds no two word-end hypotheses share a
\* (history, transit state) pair, there are as many survivors as distinct
\* pairs in the input, and the survivor of a pair has the lowest total score
\* of the inputs with that pair and the smallest pronunciation id among the
\* inputs with that lowest score, whatever the order of the input.
C7_RecombineWordEndsUnique ==
  Recombined =>
    /\ ~failed
    /\ \A i, j \in DOMAIN wordEndHypotheses :
         i # j => RecombinationKey(wordEndHypotheses[i])
                    # RecombinationKey(wordEndHypotheses[j])
    /\ Len(wordEndHypotheses) = Cardinality(InputKeys)
    /\ \A i \in DOMAIN wordEndHypotheses :
         LET weh == wordEndHypotheses[i]
             bestInputs == BestInputsWithKey(RecombinationKey(weh))
         IN /\ bestInputs # {}
            /\ \A k \in bestInputs :
                 /\ Total(weh.score) = Total(recombineInput.wehs[k].score)
                 /\ weh.pronunciation <= recombineInput.wehs[k].pronunciation
            /\ \E k \in bestInputs :
                 /\ weh.pronunciation = recombineInput.wehs[k].pronunciation
                 /\ weh.score = recombineInput.wehs[k].score
                 /\ weh.trace = recombineInput.wehs[k].trace

\* three inputs of one pair: the first has a higher score, the other two
\* tie at the lowest score and the smaller pronunciation id comes last
C7_Witness ==
  /\ pc = "once"
  /\ Len(recombineInput.wehs) = 3
  /\ Len(wordEndHypotheses) = 1
  /\ BestInputsWithKey(RecombinationKey(wordEndHypotheses[1])) = {2, 3}
  /\ recombineInput.wehs[3].pronunciation < recombineInput.wehs[2].pronunciation
  /\ wordEndHypotheses[1].pronunciation = recombineInput.wehs[3].pronunciation

\* C8: recombineWordEnds is idempotent: on a list without two entries of
\* the same (history, transit state) pair it leaves the list, the score,
\* pronunciation and trace of every entry and the sibling link of every
\* trace unchanged, so a second application changes nothing.
C8_RecombineWordEndsIdempotent ==
  /\ (Recombined /\ ~InputHasDuplicates) =>
       /\ wordEndHypotheses = recombineInput.wehs
       /\ traces = recombineInput.traces
       /\ ~failed
  /\ pc = "twice" => ~InputHasDuplicates

\* the second application, after a first one that merged duplicates into
\* two survivors and linked a sibling
C8_Witness ==
  /\ pc = "twice"
  /\ Len(recombineInput.wehs) = 2
  /\ Len(traces) = 1 + MaxWordEnds
  /\ \E t \in DOMAIN traces : traces[t].sibling # 0

LowestProspect(hyps) == SeqMin([i \in DOMAIN hyps |-> hyps[i].prospect])

\* C6: when histogram pruning runs in pruneAndAddScores (more state
\* hypotheses than acousticPruningLimit_), it leaves at most
\* acousticPruningLimit_ state hypotheses and a hypothesis with the lowest
\* prospect is among them.
C6_HistogramWithinLimit ==
  (pc = "rescale" /\ histogramPruned.applied) =>
    /\ Len(stateHypotheses) <= cfg.acousticPruningLimit
    /\ \E i \in DOMAIN stateHypotheses :
         stateHypotheses[i].prospect = LowestProspect(histogramPruned.before)

\* the word-end hypotheses the sentence end may be taken from
EligibleWordEnds ==
  {k \in DOMAIN wordEndHypotheses :
     LET transit == wordEndHypotheses[k].transitState IN
     IF sentenceEnd.forceRoot # 0 THEN transit = sentenceEnd.forceRoot
     ELSE transit \in ({rootState, ciRootState}
                         \cup cfg.uncoarticulatedWordEndStates)}

\* the state hypotheses the sentence end may be taken from
EligibleStates ==
  {i \in DOMAIN stateHypotheses :
     /\ cfg.uncoarticulatedWordEndStates # {}
     /\ \E a \in DOMAIN activeInstances :
          /\ instances[activeInstances[a]].states.begin < i
          /\ i <= instances[activeInstances[a]].states.end
     /\ IF sentenceEnd.forceRoot # 0
          THEN stateHypotheses[i].state = sentenceEnd.forceRoot
          ELSE stateHypotheses[i].state \in cfg.uncoarticulatedWordEndStates}

\* suffix-lemma LM costs plus sentence-end cost after the history of k
SentenceEndCost(k) ==
  LET hs == addLemmaScores([history |-> wordEndHypotheses[k].history, lm |-> 0],
                           sentenceEnd.context.suffix)
  IN hs.lm + sentenceEndScore(hs.history)

OwnScore(k) == Total(wordEndHypotheses[k].score)

FinalScore(k) == OwnScore(k) + globalScoreOffset_ + SentenceEndCost(k)

FirstLowest(set, Value(_)) ==
  CHOOSE k \in set :
    /\ \A m \in set : Value(k) <= Value(m)
    /\ \A m \in set : Value(m) = Value(k) => k <= m

Returned == sentenceEnd.created[sentenceEnd.best]

ReturnedSource == sentenceEnd.sources[sentenceEnd.best]

\* C9 as stated: getSentenceEnd returns the trace of the eligible word-end
\* hypothesis with the lowest total score, the first in scan order on ties,
\* and the score of the returned trace is the score of that hypothesis plus
\* the suffix-lemma LM costs plus the sentence-end cost and nothing else.
C9_LowestWordEndScore ==
  (pc = "ended" /\ EligibleWordEnds # {}) =>
    LET k == FirstLowest(EligibleWordEnds, OwnScore)
    IN /\ ~sentenceEnd.null
       /\ ReturnedSource = <<"weh", k>>
       /\ Total(Returned.score) = OwnScore(k) + SentenceEndCost(k)

\* C9 amended: among the eligible word-end hypotheses getSentenceEnd takes
\* the one whose final score (its own score plus the global score offset
\* plus the suffix-lemma LM costs plus the sentence-end cost after its own
\* history) is lowest, the first in scan order on ties; the returned trace
\* has that predecessor and exactly that score, unless a state hypothesis
\* in an uncoarticulated word-end state has a strictly lower final score.
C9_LowestFinalScore ==
  (pc = "ended" /\ EligibleWordEnds # {}) =>
    LET k == FirstLowest(EligibleWordEnds, FinalScore)
    IN /\ ~sentenceEnd.null
       /\ ReturnedSource[1] = "weh" =>
            /\ ReturnedSource = <<"weh", k>>
            /\ Returned.predecessor.trace = wordEndHypotheses[k].trace
            /\ Returned.pronunciation = 0
            /\ Total(Returned.score) = FinalScore(k)
            /\ Returned.score.acoustic =
                 wordEndHypotheses[k].score.acoustic + globalScoreOffset_
       /\ ReturnedSource[1] = "state" =>
            /\ ReturnedSource[2] + 1 \in EligibleStates
            /\ Total(Returned.score) < FinalScore(k)
       /\ EligibleStates = {} => ReturnedSource[1] = "weh"

\* after a rescaling, with a suffix lemma, two eligible word ends tie at the
\* lowest final score and the sentence end is built from the first of them
C9_Witness ==
  /\ pc = "ended"
  /\ globalScoreOffset_ # 0
  /\ sentenceEnd.context.suffix # <<>>
  /\ ~sentenceEnd.null
  /\ \E k1, k2 \in EligibleWordEnds :
       /\ k1 < k2
       /\ ReturnedSource = <<"weh", k1>>
       /\ FinalScore(k1) = FinalScore(k2)

ForwardInto(s) ==
  {p \in States : \E i \in DOMAIN Successors(p) : Successors(p)[i] = s}

SkipInto(s) == UNION {ForwardInto(q) : q \in ForwardInto(s)}

Possible(costs) == {x \in costs : x < ScoreMax}

\* the sums of the transition costs of the walks that are one transition
\* longer than those of W
WalkStep(W, allowSkips) ==
  [s \in States |->
     Possible({x + transitionModel(s).loop : x \in W[s]})
       \cup UNION {Possible({x + transitionModel(p).forward : x \in W[p]}) :
                    p \in ForwardInto(s)}
       \cup (IF allowSkips
               THEN UNION {Possible({x + transitionModel(p).skip : x \in W[p]}) :
                           p \in SkipInto(s)}
               ELSE {})]

\* by state, the sums of the transition costs of the walks of n transitions
\* that start in the root state
WalkCosts(n, allowSkips) ==
  Rounds(LAMBDA W, k : WalkStep(W, allowSkips),
         [s \in States |-> IF s = rootState THEN {0} ELSE {}], 1, n)

ExitState(exit) ==
  CHOOSE s \in States : \E i \in DOMAIN StateLabels(s) : StateLabels(s)[i] = exit

SetMin(set) == CHOOSE x \in set : \A y \in set : x <= y

NothingPruned ==
  /\ cfg.prefixFilter = {}
  /\ cfg.acousticPruning = DefaultPruning.acousticPruning
  /\ cfg.acousticPruningLimit = DefaultPruning.acousticPruningLimit
  /\ cfg.lmStatePruning = DefaultPruning.lmStatePruning

\* C11: with an acoustic scorer that contributes 0 and no back-off offset,
\* the acoustic score of an early word-end hypothesis that descends from
\* the start-up hypothesis (score 0 at the root) is, before any LM score is
\* added, the sum of the loop, forward and skip costs of a walk from the
\* root to the state of the exit, one transition per time frame, plus the
\* exit penalty of that state; without pruning it is the cheapest such
\* walk, and the LM score is kept apart in the LM component.
C11_AcousticIsPathCost ==
  pc = "earlywe" =>
    \A k \in DOMAIN earlyWordEndHypotheses :
      LET e == earlyWordEndHypotheses[k]
          last == ExitState(e.exit)
          costs == WalkCosts(timeFrame_, cfg.allowSkips)[last]
          path == e.score.acoustic + globalScoreOffset_
                    - transitionModel(last).exit
      IN e.trace = 1 =>
           /\ path \in costs
           /\ NothingPruned => path = SetMin(costs)
           /\ e.score.lm = LmScore(startHistory, exits(e.exit).pronunciation)

\* third frame without skips: root, forward into state 2, one loop there,
\* forward into the exit state
C11_Witness ==
  /\ pc = "earlywe"
  /\ timeFrame_ = 3
  /\ ~cfg.allowSkips
  /\ \E k \in DOMAIN earlyWordEndHypotheses :
       /\ earlyWordEndHypotheses[k].trace = 1
       /\ earlyWordEndHypotheses[k].score.acoustic + globalScoreOffset_ =
            transitionModel(rootState).forward
              + 1 * transitionModel(2).loop + transitionModel(2).forward
              + transitionModel(ExitState(earlyWordEndHypotheses[k].exit)).exit

\* ------------------------------------------------------- back-off chains
\* hops from the instance id along backOffInstance until a link is 0, a
\* link leaves the instances, or fuel hops were made
RECURSIVE BackOffHops(_, _)
BackOffHops(id, fuel) ==
  IF fuel = 0 \/ id \notin DOMAIN instances THEN 0
  ELSE IF instances[id].backOffInstance = 0 THEN 0
  ELSE 1 + BackOffHops(instances[id].backOffInstance, fuel - 1)

LookaheadOrder(id) == historyLenght(instances[id].lookAheadHistory)

\* C12: along backOffInstance links the length of the lookahead history
\* goes down by exactly 1 per hop, an instance with a history of length 0
\* has no back-off instance, and the chain from any instance ends after at
\* most as many hops as its history is long, at a history of length 0
\* when it makes that many.
C12_BackOffChainShortens ==
  \A id \in DOMAIN instances :
    LET back == instances[id].backOffInstance
        hops == BackOffHops(id, Cardinality(DOMAIN instances) + 1)
    IN /\ back # 0 =>
            /\ back \in DOMAIN instances
            /\ LookaheadOrder(back) = LookaheadOrder(id) - 1
       /\ LookaheadOrder(id) = 0 => back = 0
       /\ hops <= LookaheadOrder(id)
       /\ hops <= MaxHistoryLength

\* a chain of two hops from a two-word history down to the empty history
C12_Witness ==
  \E id \in DOMAIN instances :
    /\ LookaheadOrder(id) = 2
    /\ BackOffHops(id, 3) = 2
    /\ LookaheadOrder(instances[instances[id].backOffInstance].backOffInstance) = 0

\* ---------------------------------------------- the pruning pipeline (C13)
\* the steps of pruneAndAddScores in their fixed order
PipelineOrder ==
  <<"filter", "early", "scores", "beam", "lmstate", "histogram">>

\* position of a step in the pipeline
PipelinePosition(step) ==
  CHOOSE i \in 1 .. Len(PipelineOrder) : PipelineOrder[i] = step

\* a hypothesis with the acoustic score of its state added once
ScoredOnce(hyp) ==
  [hyp EXCEPT !.score = @ + scorer_[hyp.state],
              !.prospect = @ + scorer_[hyp.state] * cfg.acousticProspectFactor]

\* new[i ..] is old[j ..] scored once with some hypotheses left out
RECURSIVE SurvivorsScoredOnce(_, _, _, _)
SurvivorsScoredOnce(new, old, i, j) ==
  IF i > Len(new) THEN TRUE
  ELSE IF j > Len(old) THEN FALSE
  ELSE IF new[i] = ScoredOnce(old[j])
    THEN SurvivorsScoredOnce(new, old, i + 1, j + 1)
    ELSE SurvivorsScoredOnce(new, old, i, j + 1)

\* C13: in one call of pruneAndAddScores the steps that run keep the order
\* prefix filter, early beam pruning, addition of acoustic scores, beam
\* pruning, per-LM-state pruning, histogram pruning, no step runs twice, the
\* scores are added in exactly one step, and when the call succeeds every
\* surviving hypothesis is a hypothesis of before the call with the score
\* of its state added once to score and prospect
C13_PipelineOrder ==
  [][(pc = "prune" /\ pc' = "rescale") =>
       /\ \A i \in 1 .. Len(stepOrder') :
            /\ stepOrder'[i] \in {PipelineOrder[k] : k \in 1 .. Len(PipelineOrder)}
            /\ \A j \in 1 .. Len(stepOrder') :
                 i < j => PipelinePosition(stepOrder'[i])
                            < PipelinePosition(stepOrder'[j])
       /\ ~failed' =>
            /\ Cardinality({i \in 1 .. Len(stepOrder') :
                              stepOrder'[i] = "scores"}) = 1
            /\ \E i \in 1 .. Len(stepOrder') : stepOrder'[i] = "beam"
            /\ SurvivorsScoredOnce(stateHypotheses', stateHypotheses, 1, 1)
            /\ timeFrame_' = timeFrame_]_vars

\* all six steps ran in one call and a hypothesis with a non-zero acoustic
\* score survived them
C13_Witness ==
  /\ pc = "rescale"
  /\ ~failed
  /\ stepOrder = PipelineOrder
  /\ \E i \in 1 .. Len(stateHypotheses) : scorer_[stateHypotheses[i].state] > 0

\* -------------------------------------- fast and slow expansion (C14, C20)
\* the hypotheses of an arena that the expansion made or changed
ExpandedIn(ar) ==
  {i \in DOMAIN ar.nsh :
     i > Len(expandRun.before.nsh) \/ ar.nsh[i] # expandRun.before.nsh[i]}

\* what the slot of state s leads to in the window of the instance
SlotTarget(ar, s) ==
  IF SlotAbsent(ar, currentTreeFirstNewStateHypothesis, s)
    THEN <<>> ELSE <<ar.nsh[ar.rec[s] + 1]>>

\* C14: for every state hypothesis, on every successor shape of the network
\* (single successor, contiguous batch, irregular list, with a contiguous,
\* an irregular or no second-order batch), expandState and the loop
\* transition followed by expandStateSlow leave the same hypotheses: the
\* same states, each with the same score, prospect and trace, and the same
\* state behind every slot of the recombination array.
C14_FastEqualsSlow ==
  pc = "expanded" =>
    /\ Members(expandRun.fast.nsh) = Members(expandRun.slow.nsh)
    /\ Len(expandRun.fast.nsh) = Len(expandRun.slow.nsh)
    /\ \A s \in States :
         SlotTarget(expandRun.fast, s) = SlotTarget(expandRun.slow, s)

\* the two expansions made three or more hypotheses, with skips, and wrote
\* them in different orders
C14_Witness ==
  /\ pc = "expanded"
  /\ expandRun.allowSkip
  /\ Cardinality(ExpandedIn(expandRun.fast)) >= 3
  /\ expandRun.fast.nsh # expandRun.slow.nsh

\* the scores of the transitions out of the expanded hypothesis
TransitionScores ==
  LET tdp == transitionModel(expandRun.hyp.state)
  IN [loop |-> expandRun.hyp.score + tdp.loop,
      forward |-> expandRun.hyp.score + tdp.forward,
      skip |-> expandRun.hyp.score + tdp.skip]

\* C20: a transition whose score (hypothesis score plus loop, forward or
\* skip penalty) is not below Core::Type<Score>::max is not expanded:
\* every hypothesis the expansion makes or changes has the score of a
\* transition below the maximum, a loop at or above it leaves the state of
\* the hypothesis untouched, and nothing fails.
C20_SentinelNeverExpanded ==
  pc = "expanded" =>
    /\ ~failed
    /\ \A ar \in {expandRun.fast, expandRun.slow} :
         /\ \A i \in ExpandedIn(ar) :
              /\ ar.nsh[i].score < ScoreMax
              /\ ar.nsh[i].score \in {TransitionScores.loop,
                                      TransitionScores.forward,
                                      TransitionScores.skip}
         /\ TransitionScores.loop >= ScoreMax =>
              \A i \in ExpandedIn(ar) : ar.nsh[i].state # expandRun.hyp.state
         /\ (TransitionScores.forward >= ScoreMax
               /\ TransitionScores.skip >= ScoreMax) =>
              \A i \in ExpandedIn(ar) : ar.nsh[i].state = expandRun.hyp.state

\* a hypothesis with a contiguous second-order batch whose forward score is
\* below the maximum and whose skip score is not: only the successor was
\* made
C20_Witness ==
  /\ pc = "expanded"
  /\ expandRun.allowSkip
  /\ secondOrderEdgeSuccessorBatches(expandRun.hyp.state)[1]
       # secondOrderEdgeSuccessorBatches(expandRun.hyp.state)[2]
  /\ TransitionScores.loop >= ScoreMax
  /\ TransitionScores.forward < ScoreMax
  /\ TransitionScores.skip >= ScoreMax
  /\ {expandRun.fast.nsh[i].state : i \in ExpandedIn(expandRun.fast)}
       = {Successors(expandRun.hyp.state)[1]}

\* --------------------------------------------------- instanceForKey (C15)
\* the instances, the active list and the map as a call finds them
CallWorld ==
  [insts |-> instances, active |-> activeInstances, map |-> activeInstanceMap,
   count |-> instanceCount, items |-> traceItems, ret |-> 0]

\* the keys the calls are made with
ProbeKeys == {<<>>, <<1>>, <<2>>, <<1, 1>>, <<1, 2>>, <<2, 1>>, <<2, 2>>}

\* C15: instanceForKey(create, key, lookaheadHistory) returns the instance
\* of the map when the key is registered and changes nothing; for a key
\* that is not registered it returns null and changes nothing when create
\* is false, and when create is true it makes exactly one instance,
\* appends it to activeInstances and registers it under the key. In every
\* reachable state each instance of activeInstanceMap exists, is in
\* activeInstances, carries the key it is registered under, and is
\* registered under no second key.
C15_InstanceForKey ==
  /\ \A key \in ProbeKeys, create \in BOOLEAN :
       \A r \in {instanceForKey(create, CallWorld,
                     [history |-> key, lookaheadHistory |-> key])} :
         IF key \in DOMAIN activeInstanceMap
           THEN r = [CallWorld EXCEPT !.ret = activeInstanceMap[key]]
         ELSE IF ~create THEN r = CallWorld
         ELSE /\ r.ret \notin DOMAIN instances
              /\ r.ret # 0
              /\ r.active = Append(activeInstances, r.ret)
              /\ DOMAIN r.insts = DOMAIN instances \cup {r.ret}
              /\ \A i \in DOMAIN instances : r.insts[i] = instances[i]
              /\ r.insts[r.ret].key = key
              /\ r.insts[r.ret].lookAheadHistory = key
              /\ r.insts[r.ret].backOffParent = 0
              /\ DOMAIN r.map = DOMAIN activeInstanceMap \cup {key}
              /\ r.map[key] = r.ret
              /\ \A k \in DOMAIN activeInstanceMap :
                   r.map[k] = activeInstanceMap[k]
              /\ r.items = traceItems
  /\ \A k \in DOMAIN activeInstanceMap :
       /\ activeInstanceMap[k] \in DOMAIN instances
       /\ \E i \in DOMAIN activeInstances :
            activeInstances[i] = activeInstanceMap[k]
       /\ instances[activeInstanceMap[k]].key = k
       /\ \A k2 \in DOMAIN activeInstanceMap :
            activeInstanceMap[k2] = activeInstanceMap[k] => k2 = k

\* startNewTrees made an instance for a key, found it registered at the
\* next word end of the same history and entered it again; another probe
\* key is still free
C15_Witness ==
  /\ pc = "expand"
  /\ \E k \in DOMAIN activeInstanceMap :
       /\ activeInstanceMap[k] = instanceCount
       /\ Len(instances[activeInstanceMap[k]].rootStateHypotheses) >= 2
  /\ ProbeKeys \ DOMAIN activeInstanceMap # {}

\* ------------------------------------------------ back-off instances (C16)
\* the instances that some instance has as its back-off instance
BackOffInstances ==
  {instances[id].backOffInstance : id \in DOMAIN instances} \ {0}

OwnBackOffInstance ==
  \A id \in DOMAIN instances :
    instances[id].backOffInstance # 0 =>
      /\ instances[id].backOffInstance \in DOMAIN instances
      /\ instances[instances[id].backOffInstance].backOffParent = id
      /\ instances[instances[id].backOffInstance].key = instances[id].key
      /\ \A other \in DOMAIN instances :
           instances[other].backOffInstance = instances[id].backOffInstance
             => other = id

EmptyFramesBefore(id) ==
  IF id \in DOMAIN emptyFrames THEN emptyFrames[id] ELSE 0

\* C17: an instance is deleted only after its range has been empty for more
\* than instance-deletion-latency consecutive time frames, the frame of the
\* deletion included, however many pruning passes run inside one frame;
\* and an instance with nothing pending whose range is not empty after the
\* pruning of a frame has the inactivity count 0.
C17_DeletedAfterLatencyFrames ==
  [][(pc = "prune" /\ pc' = "rescale") =>
       /\ \A id \in (DOMAIN instances) \ (DOMAIN instances') :
            EmptyFramesBefore(id) + 1 > cfg.instanceDeletionLatency
       /\ \A id \in (DOMAIN instances) \cap (DOMAIN instances') :
            (~StatesEmpty(instances'[id]) /\ mayDeactivate(instances'[id]))
              => instances'[id].inactive = 0]_vars

\* ---------------------------------------------- deleted instances (C18)
\* the instances that a step deletes
DeletedInStep == (DOMAIN instances) \ (DOMAIN instances')

\* no list, map entry or back-off link leads to an instance that is gone
NoDanglingReference ==
  /\ \A i \in DOMAIN activeInstances : activeInstances[i] \in DOMAIN instances
  /\ \A k \in DOMAIN activeInstanceMap :
       activeInstanceMap[k] \in DOMAIN instances
  /\ \A id \in DOMAIN instances :
       /\ instances[id].backOffInstance \in {0} \cup DOMAIN instances
       /\ instances[id].backOffParent \in {0} \cup DOMAIN instances

\* a map entry goes away only together with its own instance, and what a
\* step deletes is neither active nor registered after it
DeletionIsClean ==
  /\ \A k \in DOMAIN activeInstanceMap :
       k \notin DOMAIN activeInstanceMap'
         => activeInstanceMap[k] \in DeletedInStep
  /\ \A id \in DeletedInStep :
       /\ \A i \in DOMAIN activeInstances' : activeInstances'[i] # id
       /\ \A k \in DOMAIN activeInstanceMap' : activeInstanceMap'[k] # id

\* C18: after an instance is deleted, by eventuallyDeactivateTree or by
\* clear, nothing refers to it: activeInstances does not hold it,
\* activeInstanceMap has no entry that leads to it, no remaining instance
\* names it as backOffInstance or backOffParent; and a map entry goes away
\* only together with its own instance, so that deleting a back-off
\* instance, which has the key of its parent, leaves the entry of the
\* parent in place.
C18_NoReferenceToDeleted ==
  /\ []NoDanglingReference
  /\ [][DeletionIsClean]_vars

\* a pruning pass deleted a back-off instance while its parent stayed
\* alive and registered under the key they share
C18_Witness ==
  /\ pc = "rescale"
  /\ \E k \in DOMAIN activeInstanceMap :
       /\ instances[activeInstanceMap[k]].backOffInstance = 0
       /\ instances[activeInstanceMap[k]].backOffScore # 0
       /\ instances[activeInstanceMap[k]].key = k
  /\ instanceCount > Cardinality(DOMAIN instances)

\* ------------------------------------------------- double buffering (C19)
\* the hypotheses expandHmm starts from: the state hypotheses of the
\* previous frame and the root hypotheses of the instances
ExpansionSources ==
  Members(stateHypotheses)
    \cup UNION {Members(instances[id].rootStateHypotheses) :
                  id \in DOMAIN instances}

\* the states a hypothesis of state s can lead to within one frame
OneFrameTargets(s) ==
  {s} \cup Members(Successors(s))
      \cup UNION {Members(Successors(t)) : t \in Members(Successors(s))}

\* nothing is left in the second buffer or pending in an instance
BuffersSettled ==
  /\ newStateHypotheses = <<>>
  /\ \A id \in DOMAIN instances :
       /\ instances[id].rootStateHypotheses = <<>>
       /\ instances[id].transfer = <<>>

\* C19: frames are double-buffered and sequential. Every hypothesis that
\* expandHmm produces comes from a state hypothesis of the previous frame
\* or from a root hypothesis (it has the trace of one and a state that one
\* frame of loop, forward or skip transitions reaches from it); when
\* expandHmm returns the new hypotheses are in stateHypotheses,
\* newStateHypotheses is empty and the root hypotheses and transfers of
\* every instance are empty; and this is the state in which the scores are
\* added and the pruning runs.
C19_DoubleBuffered ==
  /\ []((pc \in {"prune", "rescale"} /\ ~failed) => BuffersSettled)
  /\ [][(pc = "expand" /\ pc' = "prune" /\ ~failed') =>
          \A i \in DOMAIN stateHypotheses' :
            \E src \in ExpansionSources :
              /\ stateHypotheses'[i].trace = src.trace
              /\ stateHypotheses'[i].state \in OneFrameTargets(src.state)]_vars

\* early back-off handed root hypotheses to a back-off instance that the
\* same expandHmm made and expanded, next to hypotheses of the previous
\* frame
C19_Witness ==
  /\ pc = "prune"
  /\ ~failed
  /\ timeFrame_ >= 2
  /\ earlyBackoff(cfg)
  /\ \E id \in DOMAIN instances :
       /\ instances[id].backOffParent # 0
       /\ ~StatesEmpty(instances[id])
       /\ id = instanceCount
  /\ Len(stateHypotheses) >= 3

\* ------------------------------------------- sparse lookahead misses (C21)
\* the sparse table of the instance id has no entry for the state of hyp
LookupFailed(id, hyp) ==
  /\ sparseLookahead(cfg)
  /\ instances[id].lookahead # <<>>
  /\ instances[id].lookahead[1] # unigramHistory
  /\ ~SparseContains(instances[id].lookahead[1], hyp.state)

\* the positions in stateHypotheses of the hypotheses of the instance id
\* whose lookup failed
FailedInRange(id) ==
  {i \in (instances[id].states.begin + 1) .. instances[id].states.end :
     LookupFailed(id, stateHypotheses[i])}

\* the hypotheses as addAcousticScores leaves them when it runs on the
\* hypotheses that expandHmm produced
ScoredNow ==
  addAcousticScoresInternal(cfg,
    [hyps |-> stateHypotheses, bestProspect |-> ScoreMax,
     bestScore |-> ScoreMax],
    scorer_, ActiveRange(PruneWorld)[1], ActiveRange(PruneWorld)[2]).hyps

\* after expandHmm a hypothesis whose lookup failed has the prospect
\* ScoreMax, and addAcousticScores leaves its score and prospect alone
FailedHaveMaxProspect ==
  (pc = "prune" /\ ~failed) =>
    \A id \in DOMAIN instances : \A i \in FailedInRange(id) :
      /\ stateHypotheses[i].prospect = ScoreMax
      /\ ScoredNow[i] = stateHypotheses[i]

\* pruneAndAddScores removes the hypotheses whose lookup failed from the
\* range of their instance
FailedArePruned ==
  (pc = "prune" /\ pc' = "rescale" /\ ~failed') =>
    /\ \A i \in DOMAIN stateHypotheses' :
         stateHypotheses'[i].prospect < ScoreMax
    /\ \A id \in DOMAIN instances : \A i \in FailedInRange(id) :
         id \in DOMAIN instances' =>
           \A j \in (instances'[id].states.begin + 1) ..
                      instances'[id].states.end :
             stateHypotheses'[j].state # stateHypotheses[i].state

\* C21: a state hypothesis whose sparse lookahead lookup failed has the
\* prospect ScoreMax (F32_MAX), gets no acoustic score, and is not in the
\* range of its instance after pruneAndAddScores of the same frame, with or
\* without early beam pruning.
C21_FailedLookupIsPruned ==
  /\ []FailedHaveMaxProspect
  /\ [][FailedArePruned]_vars

\* without early beam pruning, expandHmm has left an instance with a
\* hypothesis whose lookup failed next to one whose lookup succeeded
C21_Witness ==
  /\ pc = "prune"
  /\ ~failed
  /\ ~cfg.earlyBeamPruning
  /\ \E id \in DOMAIN instances :
       /\ FailedInRange(id) # {}
       /\ StatesSize(instances[id]) > Cardinality(FailedInRange(id))

\* ----------------------------------------------- prospect and score (C22)
\* the table that scores the instance of the lookahead run r
RunTable(r) == IF r.table = <<>> THEN unigramHistory ELSE r.table[1]

\* the lookup for the hypothesis hyp missed in the sparse table of r
RunMiss(r, hyp) ==
  /\ sparseLookahead(cfg)
  /\ RunTable(r) # unigramHistory
  /\ ~SparseContains(RunTable(r), hyp.state)

\* applyLookaheadInInstance wrote only the prospect of the hypotheses whose
\* lookup succeeded, as score + LM lookahead estimate
LookaheadWritesProspectOnly ==
  \A k \in DOMAIN lookaheadRun :
    \A i \in DOMAIN lookaheadRun[k].before :
      LET r == lookaheadRun[k]
      IN ~RunMiss(r, r.before[i]) =>
           /\ r.after[i] = [r.before[i] EXCEPT !.prospect = r.after[i].prospect]
           /\ lmLookaheadEnabled(cfg) =>
                r.after[i].prospect =
                  r.after[i].score + LookaheadScore(RunTable(r), r.after[i].state)

\* every hypothesis that pruneAndAddScores keeps is a hypothesis of before
\* the call with the acoustic score s of its state added to the score and
\* s * acousticProspectFactor added to the prospect
ScoringAddsToBoth ==
  (pc = "prune" /\ pc' = "rescale" /\ ~failed') =>
    \A j \in DOMAIN stateHypotheses' :
      \E i \in DOMAIN stateHypotheses :
        /\ stateHypotheses'[j].state = stateHypotheses[i].state
        /\ stateHypotheses'[j].trace = stateHypotheses[i].trace
        /\ stateHypotheses'[j].score =
             stateHypotheses[i].score + scorer_[stateHypotheses[i].state]
        /\ stateHypotheses'[j].prospect =
             stateHypotheses[i].prospect
               + scorer_[stateHypotheses[i].state] * cfg.acousticProspectFactor

EmptySearchSpace == stateHypotheses = <<>> \/ activeInstances = <<>>

\* a step of pruneAndAddScores, findWordEnds, getSentenceEnd (without a
\* forced final coarticulation) or getSentenceEndFallBack that works on an
\* empty search space, or whose filtering and pruning empty it, ends
\* without a failure
EmptySpaceStepCompletes ==
  /\ (pc = "prune" /\ pc' = "rescale"
        /\ (EmptySearchSpace \/ stateHypotheses' = <<>>
              \/ activeInstances' = <<>>)) => ~failed'
  /\ (pc = "wordends" /\ pc' = "earlywe" /\ EmptySearchSpace) => ~failed'
  /\ (pc = "feed" /\ pc' = "ended" /\ EmptySearchSpace
        /\ sentenceEnd'.context.finalCoarticulation = <<term, term>>)
       => ~failed'
  /\ (pc = "ended" /\ pc' = "done" /\ EmptySearchSpace) => ~failed'

\* C23: an empty search space is recoverable. When filtering or pruning
\* removes every state hypothesis, or every active instance is deleted, the
\* remaining steps of pruneAndAddScores (addAcousticScores among them),
\* findWordEnds, getSentenceEnd and getSentenceEndFallBack complete without
\* a failed assertion and without reading an element of an empty list.
C23_EmptySpaceIsRecoverable == [][EmptySpaceStepCompletes]_vars

\* -------------------------------------------------- limits of the beam (C24)
\* the last call of relaxPruning asked for a tighter beam
TighteningCall ==
  /\ pruningRun.call = "relaxPruning"
  /\ \/ pruningRun.factor[1] < pruningRun.factor[2]
     \/ pruningRun.offset < 0

\* C24: in beam-master mode (histogram-pruning-is-master-pruning off) the
\* beam pruning beamPruning() never exceeds maximum-beam-pruning after any
\* sequence of relaxPruning calls, and a tightening call never leaves it
\* below minimum-beam-pruning.
C24_BeamWithinLimits ==
  (pc = "pruning" /\ ~failed /\ ~cfg.histogramPruningIsMasterPruning) =>
    /\ cfg.acousticPruning <= maximumBeamPruning_ * LmScale
    /\ TighteningCall => cfg.acousticPruning >= minimumBeamPruning_ * LmScale

\* ------------------------------------------ root for a coarticulation (C25)
\* the root states whose transit description is the requested pair
MatchingRoots ==
  {st \in DOMAIN rootRun.descriptions :
     rootRun.descriptions[st] = rootRun.coarticulation}

\* C25: rootForCoarticulation returns the plain root state for the pair
\* (term, term); otherwise, with state encoding off, it returns the one
\* root state whose transit description is the requested pair and raises a
\* critical error when several root states match and when none matches; it
\* never returns one of several candidates without the error.
C25_RootLookupIsStrict ==
  pc = "rooted" =>
    IF rootRun.coarticulation = <<term, term>>
      THEN ~failed /\ rootRun.state = rootState
      ELSE /\ failed <=> Cardinality(MatchingRoots) # 1
           /\ ~failed => MatchingRoots = {rootRun.state}

\* a lookup that two root states match has ended in the critical error
C25_Witness ==
  /\ pc = "rooted"
  /\ rootRun.coarticulation # <<term, term>>
  /\ Cardinality(MatchingRoots) = 2
  /\ failed

\* ------------------------------------------- skip transitions (C26, C27)
\* the followers of the followers of a state
SecondOrderSuccessors(s) ==
  UNION {{Successors(Successors(s)[i])[j] :
            j \in 1 .. Len(Successors(Successors(s)[i]))} :
         i \in 1 .. Len(Successors(s))}

FirstOrderSuccessors(s) == {Successors(s)[i] : i \in 1 .. Len(Successors(s))}

\* a state at the depth of the root state or one phoneme below it, with
\* symmetrize-penalties on
SkipForbidden(s) ==
  /\ cfg.symmetrizePenalties
  /\ \/ stateDepths_[s] = stateDepths_[rootState]
     \/ stateDepths_[s] = stateDepths_[rootState] + hmmLength_

\* the window of the instance holds a hypothesis of state s with this score
\* or a better one
ActivatedWith(ar, s, score) ==
  /\ SlotTarget(ar, s) # <<>>
  /\ SlotTarget(ar, s)[1].state = s
  /\ SlotTarget(ar, s)[1].score <= score

\* C26: with skips allowed and not forbidden for the state, every
\* second-order successor of a hypothesis is activated with the skip score
\* whenever hypothesis score plus skip penalty is below
\* Core::Type<Score>::max, whether or not the forward score of the state is
\* below the maximum, by expandState and by expandStateSlow alike.
C26_SkipOnItsOwnScore ==
  (/\ pc = "expanded"
   /\ expandRun.allowSkip
   /\ ~SkipForbidden(expandRun.hyp.state)
   /\ TransitionScores.skip < ScoreMax) =>
    \A ar \in {expandRun.fast, expandRun.slow} :
      \A t \in SecondOrderSuccessors(expandRun.hyp.state) :
        ActivatedWith(ar, t, TransitionScores.skip)

\* the same for the states whose forward score is below the maximum or
\* whose second-order batch is contiguous
SkipWithForwardOrBatch ==
  (/\ pc = "expanded"
   /\ expandRun.allowSkip
   /\ ~SkipForbidden(expandRun.hyp.state)
   /\ TransitionScores.skip < ScoreMax
   /\ \/ TransitionScores.forward < ScoreMax
      \/ secondOrderEdgeSuccessorBatches(expandRun.hyp.state)[1] # 0) =>
    \A ar \in {expandRun.fast, expandRun.slow} :
      \A t \in SecondOrderSuccessors(expandRun.hyp.state) :
        ActivatedWith(ar, t, TransitionScores.skip)

\* C27: with symmetrize-penalties on, exactly the states at the depth of
\* the root state or at that depth plus the HMM length carry the forbidden
\* batch, and neither expandState nor expandStateSlow expands a skip from
\* such a state: every hypothesis the expansion makes or changes is the
\* state itself or a successor, with the loop or the forward score, and
\* the loop and the forward transitions below the maximum are all there.
C27_ForbiddenStatesDoNotSkip ==
  (pc = "expanded" /\ cfg.symmetrizePenalties) =>
    /\ \A s \in States :
         SkipForbidden(s) <=>
           secondOrderEdgeSuccessorBatches(s)
             = <<ForbidSecondOrderExpansion, ForbidSecondOrderExpansion>>
    /\ SkipForbidden(expandRun.hyp.state) =>
         \A ar \in {expandRun.fast, expandRun.slow} :
           /\ \A i \in ExpandedIn(ar) :
                \/ /\ ar.nsh[i].state = expandRun.hyp.state
                   /\ ar.nsh[i].score = TransitionScores.loop
                \/ /\ ar.nsh[i].state \in FirstOrderSuccessors(expandRun.hyp.state)
                   /\ ar.nsh[i].score = TransitionScores.forward
           /\ TransitionScores.loop < ScoreMax =>
                ActivatedWith(ar, expandRun.hyp.state, TransitionScores.loop)
           /\ TransitionScores.forward < ScoreMax =>
                \A t \in FirstOrderSuccessors(expandRun.hyp.state) :
                  ActivatedWith(ar, t, TransitionScores.forward)

\* a forbidden state with second-order successors and a skip score below
\* the maximum was expanded with skips allowed: the loop and the forward
\* transitions were made and no second-order successor was reached
C27_Witness ==
  /\ pc = "expanded"
  /\ cfg.symmetrizePenalties
  /\ expandRun.allowSkip
  /\ SkipForbidden(expandRun.hyp.state)
  /\ TransitionScores.skip < ScoreMax
  /\ TransitionScores.loop < ScoreMax
  /\ SecondOrderSuccessors(expandRun.hyp.state)
       \ FirstOrderSuccessors(expandRun.hyp.state) # {}
  /\ Cardinality(ExpandedIn(expandRun.fast)) >= 2
  /\ \A i \in ExpandedIn(expandRun.fast) :
       expandRun.fast.nsh[i].state
         \notin SecondOrderSuccessors(expandRun.hyp.state)

\* ------------------------------------------- transfer to the back-off (C28)
\* how often the hypothesis at position i of the lookahead run r sits in
\* the transfer list of the back-off instance after the run
TimesQueued(r, i) ==
  Cardinality({j \in DOMAIN r.queued : r.queued[j] = r.first + i - 1})

\* the runs after run k of the same expandHmm that scored the back-off
\* instance of the instance of run k
BackOffRuns(k) ==
  {k2 \in DOMAIN lookaheadRun :
     /\ k2 > k
     /\ lookaheadRun[k2].id = instances[lookaheadRun[k].id].backOffInstance}

\* C28: on a sparse lookahead miss without early back-off the score of the
\* hypothesis grows by the backOffScore of its instance once, its index is
\* once in the transfer list of the back-off instance of the instance, and
\* the back-off instance, expanded later in the same expandHmm, holds a
\* hypothesis of that state with a score no worse than the shifted one
\* when its own lookahead starts; with early back-off the hypothesis is not
\* queued and its score is ScoreMax.
C28_MissIsTransferred ==
  (pc = "prune" /\ ~failed) =>
    \A k \in DOMAIN lookaheadRun :
      \A i \in DOMAIN lookaheadRun[k].before :
        LET r == lookaheadRun[k]
        IN RunMiss(r, r.before[i]) =>
             IF earlyBackoff(cfg)
               THEN /\ r.after[i].score = ScoreMax
                    /\ TimesQueued(r, i) = 0
               ELSE /\ r.after[i].score =
                         r.before[i].score + instances[r.id].backOffScore
                    /\ instances[r.id].backOffInstance # 0
                    /\ TimesQueued(r, i) = 1
                    /\ \E k2 \in BackOffRuns(k) :
                         \E j \in DOMAIN lookaheadRun[k2].before :
                           /\ lookaheadRun[k2].before[j].state = r.before[i].state
                           /\ lookaheadRun[k2].before[j].score <= r.after[i].score

\* without early back-off a hypothesis missed the table of an instance
\* with a backOffScore above zero and the back-off instance took it over
\* with the shifted score
C28_Witness ==
  /\ pc = "prune"
  /\ ~failed
  /\ ~earlyBackoff(cfg)
  /\ \E k \in DOMAIN lookaheadRun : \E i \in DOMAIN lookaheadRun[k].before :
       /\ RunMiss(lookaheadRun[k], lookaheadRun[k].before[i])
       /\ instances[lookaheadRun[k].id].backOffScore > 0
       /\ \E k2 \in BackOffRuns(k) :
            \E j \in DOMAIN lookaheadRun[k2].before :
              /\ lookaheadRun[k2].before[j].state = lookaheadRun[k].before[i].state
              /\ lookaheadRun[k2].before[j].score = lookaheadRun[k].after[i].score

\* --------------------------------------------- order of the lookahead (C29)
\* an instance that has a table keeps it
TableIsKept ==
  \A id \in DOMAIN instances :
    (id \in DOMAIN instances' /\ instances[id].lookahead # <<>>) =>
      instances'[id].lookahead = instances[id].lookahead

\* activateLmLookahead on an instance that has a table changes nothing
ActivateWithTableIsNoOp ==
  \A id \in DOMAIN instances : \A compute \in BOOLEAN :
    instances[id].lookahead # <<>> =>
      \A w \in {[insts |-> instances, cache |-> lookaheadCache]} :
        activateLmLookahead(cfg, w, id, compute) = w

\* an instance that has no table after applyLookaheadInInstance was scored
\* with the unigram table
NoTableScoredWithUnigram ==
  (pc = "prune" /\ ~failed /\ lmLookaheadEnabled(cfg)) =>
    \A k \in DOMAIN lookaheadRun : \A i \in DOMAIN lookaheadRun[k].before :
      lookaheadRun[k].table = <<>> =>
        lookaheadRun[k].after[i].prospect =
          lookaheadRun[k].after[i].score
            + LookaheadScore(unigramHistory, lookaheadRun[k].after[i].state)

\* applyLookaheadInInstance computed a table of a history above the
\* unigram that the cache did not hold
ComputedFullOrder(r) ==
  /\ r.tableBefore = <<>>
  /\ r.table # <<>>
  /\ r.table[1] # unigramHistory
  /\ r.table[1] \notin r.cached

\* a table is computed only for an instance whose state count (over the
\* back-off chain in sparse mode) has reached the threshold
ComputedOnlyWhenLarge ==
  pc = "prune" =>
    \A k \in DOMAIN lookaheadRun :
      ComputedFullOrder(lookaheadRun[k]) =>
        lookaheadRun[k].count >= lookaheadRun[k].threshold

BestProspectOf(hyps, s) ==
  LET ps == {hyps[i].prospect : i \in {j \in DOMAIN hyps : hyps[j].state = s}}
  IN CHOOSE b \in ps : \A o \in ps : b <= o

\* the hypotheses of part, in order, that are within lmStatePruning_ of the
\* best hypothesis of their state in all
WithinLmStatePruning(all, part) ==
  SelectSeq(part, LAMBDA h :
    h.prospect <= BestProspectOf(all, h.state) + cfg.lmStatePruning)

\* C30: with lmStatePruning_ below acousticPruning_, pruneStatesPerLmState
\* keeps exactly the hypotheses whose prospect is at most the lowest
\* prospect of their state over all instances plus lmStatePruning_ (the
\* best of each state among them), in the same order, and the range of
\* every instance that stays active holds the survivors of its old range,
\* while an instance that is deleted has no survivor; with lmStatePruning_
\* at or above acousticPruning_ it changes nothing.
C30_PerStatePruning ==
  (pc = "rescale" /\ ~failed /\ pruningRun.call = "pruneStatesPerLmState") =>
    LET b == pruningRun.before
        a == pruningRun.after
    IN IF cfg.lmStatePruning >= cfg.acousticPruning THEN a = b
       ELSE /\ a.hyps = WithinLmStatePruning(b.hyps, b.hyps)
            /\ \A s \in {b.hyps[i].state : i \in DOMAIN b.hyps} :
                 \E i \in DOMAIN a.hyps :
                   /\ a.hyps[i].state = s
                   /\ a.hyps[i].prospect = BestProspectOf(b.hyps, s)
            /\ \A k \in DOMAIN b.active :
                 LET id == b.active[k]
                     old == SubSeq(b.hyps, b.insts[id].states.begin + 1,
                                   b.insts[id].states.end)
                 IN IF \E k2 \in DOMAIN a.active : a.active[k2] = id
                      THEN SubSeq(a.hyps, a.insts[id].states.begin + 1,
                                  a.insts[id].states.end)
                             = WithinLmStatePruning(b.hyps, old)
                      ELSE WithinLmStatePruning(b.hyps, old) = <<>>
            /\ \A k \in DOMAIN a.active :
                 \E k2 \in DOMAIN b.active : b.active[k2] = a.active[k]

\* two instances held the same state: the worse hypothesis was removed,
\* while on another state two hypotheses survived, and hypotheses behind
\* the removed one moved up
C30_Witness ==
  /\ pc = "rescale"
  /\ ~failed
  /\ pruningRun.call = "pruneStatesPerLmState"
  /\ cfg.lmStatePruning < cfg.acousticPruning
  /\ Len(pruningRun.after.hyps) < Len(pruningRun.before.hyps)
  /\ \E i, j \in DOMAIN pruningRun.after.hyps :
       /\ i < j
       /\ pruningRun.after.hyps[i].state = pruningRun.after.hyps[j].state
  /\ \E i \in DOMAIN pruningRun.after.hyps :
       pruningRun.after.hyps[i] # pruningRun.before.hyps[i]

\* ------------------------------------------------- word ends of one frame
\* frames in which findWordEnds and pruneEarlyWordEnds run: up to
\* MaxLabelHyps state hypotheses on the labelled states 4, 11 and 12 and on
\* the unlabelled state 3, spread over an instance and a back-off instance
MaxLabelHyps == 2

LabelStates == {3, 4, 11, 12}

LabelScores == {0, 1, 3}

\* the word-end pruning settings of the frames
WordEndSettings ==
  [early : BOOLEAN, beam : {2, ScoreMax}, phoneme : {ScoreMax}, limit : {ScoreMax}]
  \cup [early : {TRUE}, beam : {2, ScoreMax}, phoneme : {0, 1}, limit : {ScoreMax}]
  \cup [early : {TRUE}, beam : {2}, phoneme : {1, ScoreMax}, limit : {1, 2}]

FindWordEndsInit ==
  /\ \E w \in WordEndSettings :
       cfg = [Configuration(DefaultPruning, DefaultLookahead, DefaultOther)
                EXCEPT !.earlyWordEndPruning = w.early,
                       !.wordEndPruning = w.beam,
                       !.wordEndPhonemePruningThreshold = w.phoneme,
                       !.wordEndPruningLimit = w.limit]
  /\ timeFrame_ = 1
  /\ scorer_ = [s \in States |-> 0]
  /\ \E n \in 1 .. MaxLabelHyps : \E split \in 0 .. n :
       \E hyps \in [1 .. n -> LabelStates \X LabelScores] :
         /\ stateHypotheses =
              [i \in 1 .. n |->
                 [state |-> hyps[i][1], score |-> hyps[i][2],
                  prospect |-> hyps[i][2], trace |-> IF i <= split THEN 1 ELSE 2]]
         /\ instances =
              <<[NewInstance(<<1>>, 0)
                   EXCEPT !.states = [begin |-> 0, end |-> split],
                          !.lookAheadHistory = <<1>>,
                          !.backOffInstance = 2],
                [NewInstance(<<>>, 1)
                   EXCEPT !.states = [begin |-> split, end |-> n],
                          !.backOffScore = 1,
                          !.totalBackOffOffset = 1]>>
  /\ newStateHypotheses = <<>>
  /\ stateHypothesisRecombinationArray = [s \in States |-> 0]
  /\ currentTreeFirstNewStateHypothesis = 0
  /\ activeInstances = <<1, 2>>
  /\ activeInstanceMap = [k \in {<<1>>} |-> 1]
  /\ instanceCount = 2
  /\ lookaheadCache = {}
  /\ currentLookaheadInstanceStateThreshold_ = 0
  /\ earlyWordEndHypotheses = <<>>
  /\ wordEndHypotheses = <<>>
  /\ traces = <<Trace(0, 0, 0, ScoreVector(0, 0))>>
  /\ traceItems = <<[trace |-> 1, history |-> <<1>>, lookaheadHistory |-> <<1>>],
                    [trace |-> 1, history |-> <<1>>, lookaheadHistory |-> <<>>]>>
  /\ bestProspect_ = 0
  /\ bestScore_ = 0
  /\ minWordEndScore_ = ScoreMax
  /\ globalScoreOffset_ = 0
  /\ hadWordEnd_ = FALSE
  /\ histogramPruned = [applied |-> FALSE, before |-> <<>>]
  /\ sentenceEnd = [call |-> "none"]
  /\ passRanges = <<>>
  /\ stepOrder = <<>>
  /\ emptyFrames = <<>>
  /\ recombineInput = [wehs |-> <<>>, traces |-> <<>>]
  /\ incoming = <<>>
  /\ beamRun = [input |-> <<>>, narrow |-> <<>>, wide |-> <<>>, t1 |-> 0, t2 |-> 0]
  /\ expandRun = [hyp |-> <<>>, fast |-> <<>>, slow |-> <<>>]
  /\ lookaheadRun = <<>>
  /\ pruningRun = [call |-> "none"]
  /\ rootRun = [call |-> "none"]
  /\ NoLanguageModel
  /\ failed = FALSE
  /\ pc = "wordends"

FindWordEndsNext == findWordEnds \/ pruneEarlyWordEnds

SpecFindWordEnds == FindWordEndsInit /\ [][FindWordEndsNext]_vars

\* ------------------------------------- first-phoneme word-end pruning (C31)
\* a step of pruneEarlyWordEnds with first-phoneme pruning on and the
\* word-end limit out of reach
PhonemePruningStep ==
  /\ pc = "earlywe"
  /\ pc' = "traces"
  /\ ~failed'
  /\ cfg.wordEndPhonemePruningThreshold < cfg.wordEndPruning
  /\ cfg.wordEndPruningLimit = ScoreMax

\* the early word ends within the word-end beam, which the expansion loop
\* hands to first-phoneme pruning
WithinWordEndBeam ==
  SelectSeq(earlyWordEndHypotheses,
            LAMBDA in : Total(in.score)
                          <= minWordEndScore_ + Min(cfg.acousticPruning,
                                                    cfg.wordEndPruning))

\* the best score among the word ends of list that are in the group
GroupBest(list, group) ==
  LET scores == {Total(list[i].score) :
                   i \in {j \in 1 .. Len(list) :
                            PhonemeGroup(list[j].exit) = group}}
  IN CHOOSE x \in scores : \A y \in scores : x <= y

LeftAfterPruning(in) ==
  \E k \in 1 .. Len(wordEndHypotheses') :
    wordEndHypotheses'[k] = ExpandEarlyWordEnd(in)

\* C31: first-phoneme pruning removes a word end only if its score exceeds
\* the best score of its group plus the phoneme threshold (so the best of
\* every group stays, for every threshold), and it removes no word end of
\* the pushed group
C31_GroupBestSurvives ==
  [][PhonemePruningStep =>
       \A i \in 1 .. Len(WithinWordEndBeam) :
         LET in == WithinWordEndBeam[i]
             group == PhonemeGroup(in.exit)
         IN (\/ group = nPhonemes
             \/ Total(in.score) <= GroupBest(WithinWordEndBeam, group)
                                     + cfg.wordEndPhonemePruningThreshold)
              => LeftAfterPruning(in)]_vars

\* what the step does: a word end of an unpushed group stays exactly when
\* its score is below the best of its group plus the threshold, and the
\* word ends of the pushed group stay
PhonemePruningIsStrict ==
  [][PhonemePruningStep =>
       \A i \in 1 .. Len(WithinWordEndBeam) :
         LET in == WithinWordEndBeam[i]
             group == PhonemeGroup(in.exit)
         IN LeftAfterPruning(in)
              <=> (\/ group = nPhonemes
                   \/ Total(in.score) < GroupBest(WithinWordEndBeam, group)
                                          + cfg.wordEndPhonemePruningThreshold)]_vars

\* the best word end of an unpushed group is removed at threshold 0
BestOfGroupRemoved ==
  /\ pc = "traces"
  /\ ~failed
  /\ cfg.wordEndPhonemePruningThreshold = 0
  /\ minWordEndScore_ < ScoreMax
  /\ wordEndHypotheses = <<>>

\* ------------------------------------------- emitted early word ends (C32)
\* the instance a state hypothesis index belongs to
InstanceOfIndex(i) ==
  CHOOSE k \in 1 .. Len(activeInstances) :
    /\ instances[activeInstances[k]].states.begin < i
    /\ i <= instances[activeInstances[k]].states.end

\* one early word end per label of the state of every state hypothesis, in
\* the order of the hypotheses and of the labels
RECURSIVE OnePerLabel(_)
OnePerLabel(i) ==
  IF i > Len(stateHypotheses) THEN <<>>
  ELSE [l \in 1 .. Len(StateLabels(stateHypotheses[i].state)) |->
          EarlyWordEndAt(instances[activeInstances[InstanceOfIndex(i)]],
                         stateHypotheses[i],
                         StateLabels(stateHypotheses[i].state)[l])]
         \o OnePerLabel(i + 1)

MinimumOf(early) ==
  IF early = <<>> THEN ScoreMax
  ELSE CHOOSE x \in {Total(early[i].score) : i \in DOMAIN early} :
         \A i \in DOMAIN early : x <= Total(early[i].score)

FoundWithoutEarlyPruning ==
  pc = "earlywe" /\ ~failed /\ ~cfg.earlyWordEndPruning

\* C32: without early word-end pruning findWordEnds emits exactly one early
\* word end per exit label of the state of every state hypothesis, whatever
\* encoding stores the labels of the state, and minWordEndScore_ is the
\* minimum score of the emitted word ends
C32_OneEarlyWordEndPerLabel ==
  FoundWithoutEarlyPruning =>
    /\ earlyWordEndHypotheses = OnePerLabel(1)
    /\ minWordEndScore_ = MinimumOf(earlyWordEndHypotheses)

\* the word ends whose LM score grows by more than ImplausibleLmScore
Implausible(early) ==
  SelectSeq(early,
    LAMBDA in : in.score.lm - traces[traceItems[in.trace].trace].score.lm
                  > ImplausibleLmScore)

\* what the code does: the labels are decoded correctly from each of the
\* encodings, and the only word ends that are missing are those of a slow
\* batch whose LM score grew by more than ImplausibleLmScore
OnePerPlausibleLabel ==
  FoundWithoutEarlyPruning =>
    /\ \A s \in States : ExitLoop(s).exits = StateLabels(s)
    /\ earlyWordEndHypotheses
         = SelectSeq(OnePerLabel(1),
             LAMBDA in : ~(/\ ExitLoop(ExitState(in.exit)).loop = "slow"
                           /\ Implausible(<<in>>) # <<>>))
    /\ minWordEndScore_ = MinimumOf(earlyWordEndHypotheses)

\* a word end through a single label with an implausible LM score is
\* emitted, one through a slow batch is not
SlowBatchDropsWordEnd ==
  /\ FoundWithoutEarlyPruning
  /\ \E i \in DOMAIN stateHypotheses : stateHypotheses[i].state = 11
  /\ \E i \in DOMAIN stateHypotheses : stateHypotheses[i].state = 12
  /\ \E k \in DOMAIN earlyWordEndHypotheses : earlyWordEndHypotheses[k].exit = 5
  /\ \A k \in DOMAIN earlyWordEndHypotheses : earlyWordEndHypotheses[k].exit # 6

\* --------------------------------------------- early word-end pruning (C33)
\* findWordEnds on the state hypotheses of the frame with early word-end
\* pruning set to early
FoundWith(early) ==
  Rounds(LAMBDA x, k :
           WordEndInstances([cfg EXCEPT !.earlyWordEndPruning = early], x, k),
         [list |-> <<>>, min |-> ScoreMax, bound |-> ScoreMax],
         1, Len(activeInstances))

\* findWordEnds and then pruneEarlyWordEnds with the setting
PrunedWith(early) ==
  The({ [min |-> e.min,
         wehs |-> PruneEarlyWordEnds(
                    [cfg EXCEPT !.earlyWordEndPruning = early], traces,
                    e.list, <<>>, e.min).wehs] :
        e \in {FoundWith(early)} })

RECURSIVE SiblingChain(_, _, _)
SiblingChain(ts, t, fuel) ==
  IF t = 0 \/ fuel = 0 THEN <<>>
  ELSE <<t>> \o SiblingChain(ts, ts[t].sibling, fuel - 1)

\* the chain holds every member of the set once and nothing else
HoldsExactlyOnce(chain, set) ==
  /\ Len(chain) = Cardinality(set)
  /\ {chain[i] : i \in DOMAIN chain} = set

\* after recombineWordEnds: the sibling chain of a survivor's trace holds
\* the traces of the inputs with the survivor's key once each, and its
\* head is the trace of an input of the lowest score
MergedTracesOnChain ==
  \A i \in DOMAIN wordEndHypotheses :
    LET weh == wordEndHypotheses[i]
        key == RecombinationKey(weh)
    IN /\ HoldsExactlyOnce(SiblingChain(traces, weh.trace, Len(traces) + 1),
                           {recombineInput.wehs[k].trace : k \in InputsWithKey(key)})
       /\ \E k \in BestInputsWithKey(key) :
            recombineInput.wehs[k].trace = weh.trace

\* after getSentenceEnd: a trace was made for every eligible word end, the
\* returned one has the lowest score, the sibling chain of the returned
\* trace holds every trace that was made once
SentenceEndsOnChain ==
  /\ {k \in DOMAIN wordEndHypotheses :
        WordEndAllowed(cfg, sentenceEnd.forceRoot, wordEndHypotheses[k])}
       = {sentenceEnd.sources[n][2] :
            n \in {m \in DOMAIN sentenceEnd.sources :
                     sentenceEnd.sources[m][1] = "weh"}}
  /\ Len(sentenceEnd.sources) = Len(sentenceEnd.created)
  /\ sentenceEnd.best # 0 =>
       /\ \A n \in DOMAIN sentenceEnd.created :
            Total(sentenceEnd.created[sentenceEnd.best].score)
              <= Total(sentenceEnd.created[n].score)
       /\ HoldsExactlyOnce(SiblingChain(sentenceEnd.created, sentenceEnd.best,
                                        Len(sentenceEnd.created) + 1),
                           DOMAIN sentenceEnd.created)

\* a step of recombineWordEnds that ends without a failed assertion
RecombineWordEndsStep == pc = "recombine" /\ pc' = "feed" /\ ~failed'

AfterSentenceEnd ==
  pc = "ended" /\ ~failed /\ sentenceEnd.call = "getSentenceEnd"

\* C34: in lattice mode the traces of the word ends merged into a survivor
\* are on the sibling chain of the survivor's trace once each, headed by
\* the best one, and the other eligible sentence ends are on the sibling
\* chain of the returned sentence end once each; without lattice creation
\* no sibling link is written
C34_NoAlternativeLost ==
  /\ [][RecombineWordEndsStep =>
          IF cfg.shallCreateLattice THEN MergedTracesOnChain'
          ELSE traces' = traces]_vars
  /\ []((AfterSentenceEnd /\ cfg.shallCreateLattice) => SentenceEndsOnChain)
  /\ []((AfterSentenceEnd /\ ~cfg.shallCreateLattice) =>
          \A n \in DOMAIN sentenceEnd.created :
            sentenceEnd.created[n].sibling = 0)

\* a survivor with two merged word ends behind it, and a sentence end with
\* two alternatives behind it
C34_Witness ==
  /\ AfterSentenceEnd
  /\ cfg.shallCreateLattice
  /\ Len(sentenceEnd.created) >= 3
  /\ \E i \in DOMAIN wordEndHypotheses :
       Len(SiblingChain(traces, wordEndHypotheses[i].trace, Len(traces) + 1)) >= 2

\* ------------------------------------------- frames behind a pushed word end
\* the settings of the correction of pushed word boundaries
PushedSettings ==
  { [Configuration(DefaultPruning, DefaultLookahead, DefaultOther) EXCEPT
       !.correctPushedBoundaryTimes = times,
       !.correctPushedAcousticScores = scores] :
    times \in BOOLEAN, scores \in BOOLEAN }

\* the search after the word end of label 4 was recombined: its transit
\* state 14 is the pushed root; frames are counted from the word end
PushedInit ==
  /\ cfg \in PushedSettings
  /\ timeFrame_ = 0
  /\ scorer_ = [s \in States |-> 0]
  /\ stateHypotheses = <<>>
  /\ newStateHypotheses = <<>>
  /\ stateHypothesisRecombinationArray = [s \in 0 .. (StateCount - 1) |-> 0]
  /\ currentTreeFirstNewStateHypothesis = 0
  /\ activeInstances = <<>>
  /\ instances = <<>>
  /\ activeInstanceMap = <<>>
  /\ instanceCount = 0
  /\ lookaheadCache = {}
  /\ currentLookaheadInstanceStateThreshold_ = cfg.fullLookAheadStateMinimum
  /\ earlyWordEndHypotheses = <<>>
  /\ wordEndHypotheses =
       <<WordEndHypothesis(
           extendedHistory(startHistory, Lemma(exits(4).pronunciation)),
           extendedHistory(startHistory, Lemma(exits(4).pronunciation)),
           exits(4).transitState, exits(4).pronunciation,
           ScoreVector(0, 1), 2, 4)>>
  /\ traces = <<Trace(0, 0, 0, ScoreVector(0, 0)),
                Trace(1, exits(4).pronunciation, 0, ScoreVector(0, 1))>>
  /\ traceItems = <<>>
  /\ bestProspect_ = ScoreMax
  /\ bestScore_ = ScoreMax
  /\ minWordEndScore_ = ScoreMax
  /\ globalScoreOffset_ = 0
  /\ hadWordEnd_ = FALSE
  /\ histogramPruned = [applied |-> FALSE, before |-> <<>>]
  /\ sentenceEnd = [call |-> "none"]
  /\ passRanges = <<>>
  /\ stepOrder = <<>>
  /\ emptyFrames = <<>>
  /\ recombineInput = [wehs |-> <<>>, traces |-> <<>>]
  /\ incoming = <<>>
  /\ beamRun = [input |-> <<>>, narrow |-> <<>>, wide |-> <<>>, t1 |-> 0, t2 |-> 0]
  /\ expandRun = [hyp |-> <<>>, fast |-> <<>>, slow |-> <<>>]
  /\ lookaheadRun = <<>>
  /\ pruningRun = [call |-> "none"]
  /\ rootRun = [call |-> "none"]
  /\ NoLanguageModel
  /\ failed = FALSE
  /\ pc = "feed"

\* the frame loop
PushedNext ==
  \/ setCurrentTimeFrame
  \/ startNewTrees
  \/ ExpandHmm
  \/ pruneAndAddScores
  \/ rescale
  \/ findWordEnds
  \/ pruneEarlyWordEnds
  \/ createTraces
  \/ recombineWordEnds

SpecPushed == PushedInit /\ [][PushedNext]_vars

\* ------------------------------------- correction of pushed boundaries (C35)
\* a step of pruneAndAddScores that the program survives
CorrectionStep ==
  /\ pc = "prune"
  /\ pc' = "rescale"
  /\ ~failed'

\* the hypotheses pruneAndAddScores hands to correctPushedTransitions
CorrectionInput ==
  pruneAndAddScoresSteps(cfg, PruneWorld, bestProspect_, bestScore_,
                         scorer_).p.hyps

CorrectionIsOn == cfg.correctPushedBoundaryTimes /\ minimized_

\* C35 as stated: a trace id that is marked modified is left unchanged by
\* every later correction, and the correction changes nothing when
\* correct-pushed-word-boundary-times is off or the network is not minimized
C35_ModifiedIdIsFinal ==
  [][CorrectionStep =>
       /\ \A i \in 1 .. Len(CorrectionInput) :
            isModified(CorrectionInput[i].trace)
              => stateHypotheses'[i].trace = CorrectionInput[i].trace
       /\ ~CorrectionIsOn => stateHypotheses' = CorrectionInput]_vars

\* C35 amended: a modified trace id is left unchanged only behind the root
\* depth; at exactly the root depth the correction is made again in every
\* frame from the unmodified id, with the time difference
\* 1 + timeFrame_ - trace time; before the root depth nothing changes, and
\* nothing changes at all when the correction is off
C35_CorrectedAgainAtRootDepth ==
  [][CorrectionStep =>
       /\ Len(stateHypotheses') = Len(CorrectionInput)
       /\ \A i \in 1 .. Len(CorrectionInput) :
            LET in == CorrectionInput[i]
                out == stateHypotheses'[i]
                depth == truncatedStateDepths_[in.state]
                rootDepth == truncatedStateDepths_[rootState]
            IN /\ [out EXCEPT !.trace = in.trace] = in
               /\ getUnmodified(out.trace) = getUnmodified(in.trace)
               /\ CorrectionIsOn /\ depth = rootDepth
                    => /\ isModified(out.trace)
                       /\ getModification(out.trace).first
                            = 1 + timeFrame_
                                - traces[traceItem(in.trace).trace].time
               /\ CorrectionIsOn /\ depth > rootDepth /\ isModified(in.trace)
                    => out.trace = in.trace
               /\ CorrectionIsOn /\ depth > rootDepth /\ ~isModified(in.trace)
                    => /\ isModified(out.trace)
                       /\ getModification(out.trace).first
                            = timeFrame_
                                - traces[traceItem(in.trace).trace].time
               /\ depth < rootDepth => out.trace = in.trace
       /\ ~CorrectionIsOn => stateHypotheses' = CorrectionInput]_vars

\* after a correction in the third frame a hypothesis at the root depth
\* carries the boundary of this frame, and a hypothesis behind the root
\* depth carries the boundary it was given in an earlier frame
C35_Witness ==
  /\ pc = "rescale"
  /\ ~failed
  /\ CorrectionIsOn
  /\ timeFrame_ = MaxFrames
  /\ \E i \in 1 .. Len(stateHypotheses) :
       /\ truncatedStateDepths_[stateHypotheses[i].state]
            = truncatedStateDepths_[rootState]
       /\ isModified(stateHypotheses[i].trace)
       /\ getModification(stateHypotheses[i].trace).first
            = 1 + timeFrame_
                - traces[traceItem(stateHypotheses[i].trace).trace].time
  /\ \E i \in 1 .. Len(stateHypotheses) :
       /\ truncatedStateDepths_[stateHypotheses[i].state]
            > truncatedStateDepths_[rootState]
       /\ isModified(stateHypotheses[i].trace)
       /\ getModification(stateHypotheses[i].trace).first
            < timeFrame_
                - traces[traceItem(stateHypotheses[i].trace).trace].time

\* --------------------------------------------------- pruning snapshots (C36)
\* resetPruning has returned
AfterResetPruning == pruningRun.call = "resetPruning" /\ ~failed

\* the settings when the snapshot was taken
SnapshotTaken == pruningRun.snapshot[1].taken

\* C36: resetPruning with a snapshot taken before the relaxPruning calls
\* gives the master beam and every derived pruning value the value it had
\* when the snapshot was taken
C36_ResetRestoresPruning ==
  AfterResetPruning =>
    /\ cfg.acousticPruning = SnapshotTaken.acousticPruning
    /\ cfg.acousticPruningLimit = SnapshotTaken.acousticPruningLimit
    /\ cfg.wordEndPruning = SnapshotTaken.wordEndPruning
    /\ cfg.lmStatePruning = SnapshotTaken.lmStatePruning
    /\ cfg.wordEndPhonemePruningThreshold
         = SnapshotTaken.wordEndPhonemePruningThreshold
    /\ cfg.wordEndPruningLimit = SnapshotTaken.wordEndPruningLimit

\* what the code does: the master beam is restored, and so is every value
\* that is not set
MasterBeamRestored ==
  AfterResetPruning =>
    /\ cfg.acousticPruning = SnapshotTaken.acousticPruning
    /\ cfg.acousticPruningLimit = SnapshotTaken.acousticPruningLimit
    /\ cfg.histogramPruningIsMasterPruning
         => /\ cfg.wordEndPruning = SnapshotTaken.wordEndPruning
            /\ cfg.lmStatePruning = SnapshotTaken.lmStatePruning
            /\ cfg.wordEndPhonemePruningThreshold
                 = SnapshotTaken.wordEndPhonemePruningThreshold
    /\ ~cfg.histogramPruningIsMasterPruning
         => cfg.wordEndPruningLimit = SnapshotTaken.wordEndPruningLimit
    /\ SnapshotTaken.wordEndPruning = ScoreMax
         => cfg.wordEndPruning = ScoreMax
    /\ SnapshotTaken.lmStatePruning = ScoreMax
         => cfg.lmStatePruning = ScoreMax

\* with histogram pruning as master pruning the word-end limit follows the
\* master limit only while it is below it, and it is rounded down: it never
\* comes back above the value of the snapshot, and it can come back below
WordEndLimitOnlyShrinks ==
  (AfterResetPruning /\ cfg.histogramPruningIsMasterPruning) =>
    cfg.wordEndPruningLimit <= SnapshotTaken.wordEndPruningLimit

\* a word-end limit at or above the master limit is not raised with it and
\* is lowered with it on the way back
WordEndLimitLost ==
  /\ AfterResetPruning
  /\ cfg.histogramPruningIsMasterPruning
  /\ cfg.acousticPruningLimit = SnapshotTaken.acousticPruningLimit
  /\ SnapshotTaken.wordEndPruningLimit >= SnapshotTaken.acousticPruningLimit
  /\ pruningRun.before.wordEndPruningLimit = SnapshotTaken.wordEndPruningLimit
  /\ cfg.wordEndPruningLimit < SnapshotTaken.wordEndPruningLimit

\* ------------------------------------ position of back-off instances (C37)
\* the position of the instance id in activeInstances, 0 when it is absent
PositionOf(id) ==
  IF \E i \in DOMAIN activeInstances : activeInstances[i] = id
    THEN CHOOSE i \in DOMAIN activeInstances : activeInstances[i] = id
    ELSE 0

\* every back-off link joins two active instances, and the back-off
\* instance comes later in activeInstances
BackOffAfterParent ==
  \A id \in DOMAIN instances :
    LET back == instances[id].backOffInstance
    IN back # 0 =>
         /\ back \in DOMAIN instances
         /\ instances[back].backOffParent = id
         /\ PositionOf(id) > 0
         /\ PositionOf(id) < PositionOf(back)

\* expandHmm has returned
ExpandHmmReturns == pc = "expand" /\ pc' = "prune" /\ ~failed'

\* the indices queued by run k are consumed by a later run of the same
\* expandHmm: they lie within the hypotheses, the back-off instance is
\* expanded after the instance, and its range then holds a hypothesis of
\* the state of every queued hypothesis
QueueConsumed(k) ==
  LET r == lookaheadRun'[k]
      back == instances'[r.id].backOffInstance
  IN \A q \in DOMAIN r.queued :
       /\ r.queued[q] < Len(stateHypotheses')
       /\ \E k2 \in DOMAIN lookaheadRun' :
            /\ k2 > k
            /\ lookaheadRun'[k2].id = back
            /\ lookaheadRun'[k2].first > r.queued[q]
            /\ \E j \in DOMAIN lookaheadRun'[k2].before :
                 lookaheadRun'[k2].before[j].state
                   = stateHypotheses'[r.queued[q] + 1].state

\* C37: in activeInstances every back-off instance comes after the instance
\* it backs off from, whatever instances were created, compacted or
\* deleted; every index that a lookahead queues in a transfer list is
\* consumed by the back-off instance later in the same expandHmm, and all
\* transfer lists are empty when expandHmm returns
C37_BackOffComesLater ==
  /\ []BackOffAfterParent
  /\ [][ExpandHmmReturns =>
          /\ \A id \in DOMAIN instances' : instances'[id].transfer = <<>>
          /\ \A k \in DOMAIN lookaheadRun' : QueueConsumed(k)]_vars

\* in the second frame or later, after instances were pruned, a lookahead
\* queued a hypothesis for a back-off instance that an earlier frame made
C37_Witness ==
  /\ pc = "prune"
  /\ ~failed
  /\ timeFrame_ >= 2
  /\ \E k \in DOMAIN lookaheadRun :
       /\ lookaheadRun[k].queued # <<>>
       /\ instances[lookaheadRun[k].id].backOffInstance # 0
       /\ PositionOf(lookaheadRun[k].id)
            < PositionOf(instances[lookaheadRun[k].id].backOffInstance)
       /\ instances[instances[lookaheadRun[k].id].backOffInstance].transfer = <<>>

\* ------------------------------------------------------ calls of rescale
\* the state hypotheses of one tree when rescale is called
RescaleStates == {2, 3}

RescaleScores == {1, 3}

RescaleOffsets == {0, 1, 3}

\* the search between two steps of a frame or between two frames: one tree
\* with up to two state hypotheses, the cached best values and the word-end
\* minimum set or not, and word ends or early word ends in their lists
RescaleInit ==
  /\ cfg = Configuration(DefaultPruning, DefaultLookahead, DefaultOther)
  /\ timeFrame_ = 1
  /\ scorer_ = [s \in States |-> 0]
  /\ \E n \in 0 .. 2 :
       \E hyps \in [1 .. n -> RescaleStates \X RescaleScores \X {0, 1}] :
         /\ stateHypotheses =
              [i \in 1 .. n |->
                 [state |-> hyps[i][1], score |-> hyps[i][2],
                  prospect |-> hyps[i][2] + hyps[i][3], trace |-> 1]]
         /\ instances =
              <<[NewInstance(<<1>>, 0)
                   EXCEPT !.states = [begin |-> 0, end |-> n],
                          !.lookAheadHistory = <<1>>]>>
         /\ bestScore_ \in
              {ScoreMax} \cup {hyps[i][2] : i \in 1 .. n}
         /\ bestProspect_ \in
              {ScoreMax} \cup {hyps[i][2] + hyps[i][3] : i \in 1 .. n}
  /\ newStateHypotheses = <<>>
  /\ stateHypothesisRecombinationArray = [s \in 0 .. (StateCount - 1) |-> 0]
  /\ currentTreeFirstNewStateHypothesis = 0
  /\ activeInstances = <<1>>
  /\ activeInstanceMap = [k \in {<<1>>} |-> 1]
  /\ instanceCount = 1
  /\ lookaheadCache = {}
  /\ currentLookaheadInstanceStateThreshold_ = 0
  /\ earlyWordEndHypotheses \in
       {<<>>, <<EarlyWordEndHypothesis(1, ScoreVector(3, 1), 0)>>}
  /\ wordEndHypotheses \in
       {<<>>, <<WordEndHypothesis(<<1, 1>>, <<1, 1>>, rootState, 1,
                                  ScoreVector(3, 1), 1, 0)>>}
  /\ traces = <<Trace(0, 0, 0, ScoreVector(0, 0))>>
  /\ traceItems = <<[trace |-> 1, history |-> <<1>>, lookaheadHistory |-> <<1>>]>>
  /\ minWordEndScore_ \in {ScoreMax, 4}
  /\ globalScoreOffset_ \in {0, 2}
  /\ hadWordEnd_ = FALSE
  /\ histogramPruned = [applied |-> FALSE, before |-> <<>>]
  /\ sentenceEnd = [call |-> "none"]
  /\ passRanges = <<>>
  /\ stepOrder = <<>>
  /\ emptyFrames = <<>>
  /\ recombineInput = [wehs |-> <<>>, traces |-> <<>>]
  /\ incoming = <<>>
  /\ beamRun = [input |-> <<>>, narrow |-> <<>>, wide |-> <<>>, t1 |-> 0, t2 |-> 0]
  /\ expandRun = [hyp |-> <<>>, fast |-> <<>>, slow |-> <<>>]
  /\ lookaheadRun = <<>>
  /\ pruningRun = [call |-> "none"]
  /\ rootRun = [call |-> "none"]
  /\ NoLanguageModel
  /\ failed = FALSE
  /\ pc = "rescale"

\* a call of rescale(offset, ignoreWordEnds)
RescaleCall ==
  /\ pc = "rescale"
  /\ ~failed
  /\ \E offset \in RescaleOffsets, ignoreWordEnds \in BOOLEAN :
       /\ rescaleOn(offset, ignoreWordEnds)
       /\ pruningRun' = [call |-> "rescale", offset |-> offset,
                         ignoreWordEnds |-> ignoreWordEnds]
  /\ pc' = "rescaled"
  /\ UNCHANGED <<cfg, timeFrame_, scorer_, newStateHypotheses,
                 stateHypothesisRecombinationArray,
                 currentTreeFirstNewStateHypothesis, instanceVars,
                 earlyWordEndHypotheses, wordEndHypotheses, traceVars,
                 resultVars, passRanges, stepOrder, emptyFrames,
                 recombineInput, incoming, beamRun, expandRun, lookaheadRun,
                 rootRun, lmVars>>

SpecRescale == RescaleInit /\ [][RescaleCall]_vars

\* ------------------------------------------- rescale keeps the scores (C38)
RescaleStep == pc = "rescale" /\ pc' = "rescaled"

\* the precondition of the call that the step made
RescaleAllowed ==
  /\ earlyWordEndHypotheses = <<>>
  /\ pruningRun'.ignoreWordEnds \/ wordEndHypotheses = <<>>

\* a cached value moved by the offset; a value that is not set has no
\* place to move to
ShiftedBy(value, offset) ==
  IF value = ScoreMax THEN value ELSE value - offset

\* C38: rescale(offset) leaves score + globalScoreOffset_ and
\* prospect - score of every state hypothesis as they were, shifts the
\* cached bestProspect_, bestScore_ and minWordEndScore_ by the offset (a
\* value that is not set stays not set), and leaves number, order, states
\* and traces of the hypotheses untouched; the call is rejected when there
\* are early word-end hypotheses, or word-end hypotheses and ignoreWordEnds
\* is false
C38_RescaleKeepsAbsoluteScores ==
  [][RescaleStep =>
       /\ failed' = ~RescaleAllowed
       /\ RescaleAllowed =>
            /\ globalScoreOffset_' = globalScoreOffset_ + pruningRun'.offset
            /\ Len(stateHypotheses') = Len(stateHypotheses)
            /\ \A i \in DOMAIN stateHypotheses :
                 /\ stateHypotheses'[i].score + globalScoreOffset_'
                      = stateHypotheses[i].score + globalScoreOffset_
                 /\ stateHypotheses'[i].prospect - stateHypotheses'[i].score
                      = stateHypotheses[i].prospect - stateHypotheses[i].score
                 /\ stateHypotheses'[i].state = stateHypotheses[i].state
                 /\ stateHypotheses'[i].trace = stateHypotheses[i].trace
            /\ bestProspect_' = ShiftedBy(bestProspect_, pruningRun'.offset)
            /\ bestScore_' = ShiftedBy(bestScore_, pruningRun'.offset)
            /\ minWordEndScore_' = ShiftedBy(minWordEndScore_,
                                             pruningRun'.offset)
            /\ UNCHANGED <<instances, activeInstances, wordEndHypotheses,
                           traces, traceItems>>]_vars

\* a call with an offset above zero went through with word ends in the
\* list, and the cached values that were set moved with the hypotheses
C38_Witness ==
  /\ pc = "rescaled"
  /\ ~failed
  /\ pruningRun.offset > 0
  /\ pruningRun.ignoreWordEnds
  /\ wordEndHypotheses # <<>>
  /\ Len(stateHypotheses) = 2
  /\ bestScore_ < ScoreMax
  /\ bestScore_ = stateHypotheses[1].score
  /\ minWordEndScore_ < ScoreMax
  /\ globalScoreOffset_ > pruningRun.offset

\* ------------------------------------------------- words without phonemes
\* the exits hypothesizeEpsilonPronunciations visits for a word end with
\* the transit state transit: a contiguous batch is read at the root state
EpsilonExits(transit) ==
  LET single == singleLabels_[transit + 1] IN
  IF single = -1 THEN <<>>
  ELSE IF single >= 0 THEN <<single>>
  ELSE IF single = -2
    THEN [i \in 1 .. (quickLabelBatches_[rootState + 2]
                        - quickLabelBatches_[rootState + 1]) |->
            quickLabelBatches_[rootState + 1] + i - 1]
  ELSE SlowBatch(-(single + 3))

\* the word end weh continued over exit: LM score from the instance of its
\* history or without one, exit penalty of its transit state
EpsilonWordEnd(insts, map, weh, exit) ==
  The({ [scored EXCEPT !.score.acoustic =
                          @ + transitionModel(weh.transitState).exit] :
        scored \in {IF weh.history \in DOMAIN map
                      THEN addLmScore(insts[map[weh.history]],
                                      [weh EXCEPT
                                         !.pronunciation = exits(exit).pronunciation,
                                         !.transitState = exits(exit).transitState],
                                      exits(exit).pronunciation)
                      ELSE [weh EXCEPT
                              !.pronunciation = exits(exit).pronunciation,
                              !.transitState = exits(exit).transitState,
                              !.score.lm = @ + LmScore(weh.history,
                                                       exits(exit).pronunciation)]} })

\* the body of the loops over the exits: x = [wehs, traces]
HypothesizeExit(x, w, exit, threshold) ==
  IF exits(exit).pronunciation = 0 THEN x
  ELSE The({ IF Total(weh.score) <= threshold
               THEN [wehs |-> Append(x.wehs,
                                [weh EXCEPT
                                   !.history =
                                      extendedHistory(@, Lemma(weh.pronunciation)),
                                   !.lookaheadHistory =
                                      extendedHistory(@, Lemma(weh.pronunciation)),
                                   !.trace = Len(x.traces) + 1]),
                     traces |-> Append(x.traces,
                                  Trace(weh.trace, weh.pronunciation,
                                        x.traces[weh.trace].time,
                                        [weh.score EXCEPT
                                           !.acoustic = @ + globalScoreOffset_]))]
               ELSE x :
             weh \in {EpsilonWordEnd(instances, activeInstanceMap,
                                     x.wehs[w], exit)} })

\* hypothesizeEpsilonPronunciations(best) on the word ends wehs and the
\* traces ts: [wehs, traces]
hypothesizeEpsilonPronunciations(c, wehs, ts, best) ==
  Rounds(LAMBDA x, w :
           Rounds(LAMBDA y, k :
                    HypothesizeExit(y, w, EpsilonExits(wehs[w].transitState)[k],
                                    best + c.wordEndPruning),
                  x, 1, Len(EpsilonExits(wehs[w].transitState))),
         [wehs |-> wehs, traces |-> ts], 1, Len(wehs))

\* word ends in the list when words without phonemes are hypothesized
MaxEpsilonWordEnds == 2

\* the exits that lead to the root state and to the roots that carry labels
EpsilonEntries == {0, 3, 4, 8}

EpsilonScores == {0, 2}

\* the search after the word ends of a frame were found and pruned: up to
\* MaxEpsilonWordEnds word ends behind the start-up trace, each with its
\* trace; the tree of the history of lemma 1 is active or not
EpsilonInit ==
  /\ \E beam \in {2, ScoreMax} :
       cfg = [Configuration(DefaultPruning, DefaultLookahead, DefaultOther)
                EXCEPT !.wordEndPruning = beam]
  /\ timeFrame_ = 1
  /\ scorer_ = [s \in States |-> 0]
  /\ stateHypotheses = <<>>
  /\ newStateHypotheses = <<>>
  /\ stateHypothesisRecombinationArray = [s \in 0 .. (StateCount - 1) |-> 0]
  /\ currentTreeFirstNewStateHypothesis = 0
  /\ \E cached \in BOOLEAN :
       /\ activeInstances = IF cached THEN <<1>> ELSE <<>>
       /\ instances =
            IF cached
              THEN <<[NewInstance(extendedHistory(startHistory, 1), 0)
                        EXCEPT !.lookAheadHistory =
                                  extendedHistory(startHistory, 1)]>>
              ELSE <<>>
       /\ activeInstanceMap =
            IF cached
              THEN [k \in {extendedHistory(startHistory, 1)} |-> 1]
              ELSE <<>>
       /\ instanceCount = IF cached THEN 1 ELSE 0
  /\ lookaheadCache = {}
  /\ currentLookaheadInstanceStateThreshold_ = 0
  /\ earlyWordEndHypotheses = <<>>
  /\ \E n \in 1 .. MaxEpsilonWordEnds :
       \E in \in [1 .. n -> EpsilonEntries \X EpsilonScores] :
         /\ wordEndHypotheses =
              [i \in 1 .. n |->
                 WordEndHypothesis(
                   extendedHistory(startHistory,
                                   Lemma(exits(in[i][1]).pronunciation)),
                   extendedHistory(startHistory,
                                   Lemma(exits(in[i][1]).pronunciation)),
                   exits(in[i][1]).transitState,
                   exits(in[i][1]).pronunciation,
                   ScoreVector(in[i][2], 1), i + 1, in[i][1])]
         /\ traces =
              <<Trace(0, 0, 0, ScoreVector(0, 0))>>
                \o [i \in 1 .. n |->
                      Trace(1, exits(in[i][1]).pronunciation, 1,
                            ScoreVector(in[i][2], 1))]
  /\ traceItems = <<>>
  /\ bestProspect_ = ScoreMax
  /\ bestScore_ = ScoreMax
  /\ minWordEndScore_ = ScoreMax
  /\ globalScoreOffset_ = 0
  /\ hadWordEnd_ = FALSE
  /\ histogramPruned = [applied |-> FALSE, before |-> <<>>]
  /\ sentenceEnd = [call |-> "none"]
  /\ passRanges = <<>>
  /\ stepOrder = <<>>
  /\ emptyFrames = <<>>
  /\ recombineInput = [wehs |-> <<>>, traces |-> <<>>]
  /\ incoming = <<>>
  /\ beamRun = [input |-> <<>>, narrow |-> <<>>, wide |-> <<>>, t1 |-> 0, t2 |-> 0]
  /\ expandRun = [hyp |-> <<>>, fast |-> <<>>, slow |-> <<>>]
  /\ lookaheadRun = <<>>
  /\ pruningRun = [call |-> "none"]
  /\ rootRun = [call |-> "none"]
  /\ NoLanguageModel
  /\ failed = FALSE
  /\ pc = "epsilon"

\* a call of hypothesizeEpsilonPronunciations(bestScore)
HypothesizeEpsilonPronunciations ==
  /\ pc = "epsilon"
  /\ ~failed
  /\ \E best \in {1, 3} :
       /\ \E r \in {hypothesizeEpsilonPronunciations(cfg, wordEndHypotheses,
                                                     traces, best)} :
            /\ wordEndHypotheses' = r.wehs
            /\ traces' = r.traces
       /\ pruningRun' = [call |-> "hypothesizeEpsilonPronunciations",
                         bestScore |-> best]
  /\ pc' = "recombine"
  /\ UNCHANGED <<cfg, timeFrame_, scorer_, arenaVars, instanceVars,
                 earlyWordEndHypotheses, minWordEndScore_, traceItems,
                 scoreVars, resultVars, passRanges, stepOrder, emptyFrames,
                 recombineInput, incoming, beamRun, expandRun, lookaheadRun,
                 rootRun, lmVars, failed>>

SpecEpsilon == EpsilonInit /\ [][HypothesizeEpsilonPronunciations]_vars

\* ----------------------------------- exits of the own transit state (C39)
EpsilonStep == pc = "epsilon" /\ pc' = "recombine"

\* the exits attached to the transit state of the word end weh that have a
\* pronunciation and continue weh within the threshold of the call
OwnExits(weh) ==
  SelectSeq(StateLabels(weh.transitState),
            LAMBDA exit :
              /\ exits(exit).pronunciation # 0
              /\ Total(EpsilonWordEnd(instances, activeInstanceMap, weh,
                                      exit).score)
                   <= pruningRun'.bestScore + cfg.wordEndPruning)

\* pronunciation and transit state of the word ends that the exits of the
\* own transit states of the word ends wehs give, in the order of the list
RECURSIVE OwnContinuations(_)
OwnContinuations(wehs) ==
  IF wehs = <<>> THEN <<>>
  ELSE [k \in 1 .. Len(OwnExits(Head(wehs))) |->
          [pronunciation |-> exits(OwnExits(Head(wehs))[k]).pronunciation,
           transitState |-> exits(OwnExits(Head(wehs))[k]).transitState,
           from |-> Head(wehs).trace]]
         \o OwnContinuations(Tail(wehs))

\* the word ends that the call added, by pronunciation, transit state and
\* the trace they continue
AddedContinuations ==
  [k \in 1 .. (Len(wordEndHypotheses') - Len(wordEndHypotheses)) |->
     LET weh == wordEndHypotheses'[Len(wordEndHypotheses) + k]
     IN [pronunciation |-> weh.pronunciation,
         transitState |-> weh.transitState,
         from |-> traces'[weh.trace].predecessor]]

\* C39: hypothesizeEpsilonPronunciations adds, for every word end whose
\* transit state carries labels, one word end for each exit of that state
\* that has a pronunciation and scores within bestScore + wordEndPruning_,
\* whichever encoding stores the labels of the state, and no other; the
\* word ends that were in the list stay as they were
C39_OwnExitsOnly ==
  [][EpsilonStep =>
       /\ Len(wordEndHypotheses') >= Len(wordEndHypotheses)
       /\ SubSeq(wordEndHypotheses', 1, Len(wordEndHypotheses))
            = wordEndHypotheses
       /\ AddedContinuations = OwnContinuations(wordEndHypotheses)]_vars

\* what the code does: the claim holds for the word ends whose transit
\* state has one label or a list of labels; a transit state with a
\* contiguous batch of labels is given the batch of the root state, which
\* is empty in this network
OwnExitsButForBatches ==
  [][EpsilonStep =>
       /\ SubSeq(wordEndHypotheses', 1, Len(wordEndHypotheses))
            = wordEndHypotheses
       /\ AddedContinuations
            = OwnContinuations(
                SelectSeq(wordEndHypotheses,
                          LAMBDA weh :
                            singleLabels_[weh.transitState + 1] # -2))]_vars

\* a word end on the root 14, whose two labels are a contiguous batch, was
\* in the list and the call added nothing for it
BatchOfRootStateUsed ==
  /\ pc = "recombine"
  /\ pruningRun.call = "hypothesizeEpsilonPronunciations"
  /\ cfg.wordEndPruning = ScoreMax
  /\ \E w \in DOMAIN wordEndHypotheses :
       /\ wordEndHypotheses[w].transitState = 14
       /\ wordEndHypotheses[w].endExit = 4
       /\ \A k \in DOMAIN wordEndHypotheses :
            traces[wordEndHypotheses[k].trace].predecessor
              # wordEndHypotheses[w].trace

\* ------------------------------------------- the recurrent language model
\* TFRecurrentLanguageModel keeps one cache (ScoresWithContext) by history.
\* A history is the sequence of the network outputs of its words and stands
\* for the handle of its cache; the state of the network after a history is
\* written as the words it has consumed.

\* lexicon ids: the sentence begin and the words
sentenceBeginToken == 0

Words == {1, 2, 3}

\* lexicon_mapping_[id]: the network output of a lexicon id
lexicon_mapping_ == <<1, 2, 3, 0>>

num_outputs_ == 4

\* the handle of no cache
nullptr == <<-1>>

\* an infinite score
ScoreInf == ScoreMax + 1

\* f32 addition: infinity stays, the largest value absorbs the summand
ScorePlus(a, b) ==
  IF a = ScoreInf \/ b = ScoreInf
    THEN ScoreInf
    ELSE IF a >= ScoreMax THEN ScoreMax ELSE a + b

\* a cache as NNHistoryManager::get creates it
NewCache ==
  [ parent |-> nullptr, scores |-> <<>>, state |-> <<>>,
    info |-> [bestScoreOffset |-> ScoreMax, numStates |-> 0],
    last_used |-> 0, was_expanded |-> FALSE ]

\* the cache of the empty history after the constructor: one state variable
\* filled with zeros, scores of size one
EmptyHistoryCache ==
  [ parent |-> nullptr, scores |-> <<0>>, state |-> << <<>> >>,
    info |-> [bestScoreOffset |-> ScoreMax, numStates |-> 0],
    last_used |-> InvalidU32, was_expanded |-> FALSE ]

empty_history_ == <<>>

\* NNHistoryManager::get: the cache of ts, created when it is missing
get(cm, ts) == IF ts \in DOMAIN cm THEN cm ELSE cm @@ (ts :> NewCache)

\* startHistory
lmStartHistory(cm) ==
  LET ts == <<lexicon_mapping_[sentenceBeginToken + 1]>>
  IN  [ cm |-> [get(cm, ts) EXCEPT ![ts].parent = empty_history_],
        history |-> ts ]

\* extendedHistory(hist, w)
lmExtendedHistory(cm, hist, w) ==
  LET ts == Append(hist, lexicon_mapping_[w + 1])
      cm1 == get(cm, ts)
  IN  [ cm |-> IF cm1[ts].parent = nullptr
                 THEN [cm1 EXCEPT ![ts].parent = hist,
                                  ![hist].was_expanded = TRUE]
                 ELSE cm1,
        history |-> ts ]

\* setInfo(hist, info)
setInfo(cm, hist, info) == [cm EXCEPT ![hist].info = info]

\* startFrame(time): scores that were not used for free_memory_delay_ frames
\* are deleted
startFrame(c, cm, time) ==
  IF ~c.free_memory_
    THEN cm
    ELSE [ h \in DOMAIN cm |->
             IF /\ cm[h].scores # <<>>
                /\ cm[h].was_expanded
                /\ cm[h].info.numStates = 0
                /\ cm[h].last_used < time - Min(c.free_memory_delay_, time)
               THEN [cm[h] EXCEPT !.scores = <<>>]
               ELSE cm[h] ]

\* scoreCached(hist, w)
scoreCached(cm, hist, w) == cm[hist].scores # <<>>

\* ---- RequestGraph; an entry is named by its place in entries, from one

EmptyRequestGraph == [entries |-> <<>>, children |-> <<>>, roots |-> <<>>]

\* add_cache, lines 87-94: the cache, its parent and the parents above it up
\* to the first one that has a state
RECURSIVE RequestChain(_, _, _)
RequestChain(cm, chain, parent) ==
  IF cm[parent].state = <<>>
    THEN RequestChain(cm, Append(chain, cm[parent].parent), cm[parent].parent)
    ELSE chain

\* child_idxs: roots (where = 0) or the children of the entry where
ChildIdxs(g, where) == IF where = 0 THEN g.roots ELSE g.children[where]

\* add_cache, lines 96-118: the chain is entered from its back
RECURSIVE AddChain(_, _, _)
AddChain(g, chain, where) ==
  IF chain = <<>>
    THEN g
    ELSE LET idxs  == ChildIdxs(g, where)
             back  == chain[Len(chain)]
             found == {c \in 1 .. Len(idxs) : g.entries[idxs[c]] = back}
             rest  == SubSeq(chain, 1, Len(chain) - 1)
             new   == Len(g.entries) + 1
         IN  IF found = {}
               THEN AddChain(
                      [ entries  |-> Append(g.entries, back),
                        children |->
                          Append(IF where = 0
                                   THEN g.children
                                   ELSE [g.children EXCEPT
                                           ![where] = Append(@, new)],
                                 <<>>),
                        roots    |-> IF where = 0
                                       THEN Append(g.roots, new)
                                       ELSE g.roots ],
                      rest, new)
               ELSE AddChain(g, rest,
                             idxs[CHOOSE c \in found :
                                    \A d \in found : c <= d])

add_cache(g, cm, cache) ==
  AddChain(g, RequestChain(cm, <<cache, cm[cache].parent>>, cm[cache].parent),
           0)

RECURSIVE AddCaches(_, _, _)
AddCaches(g, cm, caches) ==
  IF caches = <<>>
    THEN g
    ELSE AddCaches(add_cache(g, cm, Head(caches)), cm, Tail(caches))

RECURSIVE get_requests_dfs(_, _, _, _)
RECURSIVE RequestsBelow(_, _, _, _)
\* get_requests_dfs(requests, initial, entry, length)
get_requests_dfs(g, initial, entry, length) ==
  IF g.children[entry] = <<>>
    THEN <<[ initial_cache |-> initial, final_cache |-> g.entries[entry],
             length |-> length ]>>
    ELSE RequestsBelow(g, initial, g.children[entry], length + 1)

\* the loops over the children of an entry
RequestsBelow(g, initial, es, length) ==
  IF es = <<>>
    THEN <<>>
    ELSE get_requests_dfs(g, initial, Head(es), length)
           \o RequestsBelow(g, initial, Tail(es), length)

RECURSIVE RootRequests(_, _)
RootRequests(g, rs) ==
  IF rs = <<>>
    THEN <<>>
    ELSE RequestsBelow(g, g.entries[Head(rs)], g.children[Head(rs)], 1)
           \o RootRequests(g, Tail(rs))

get_requests(g) == RootRequests(g, g.roots)

\* ---- score

\* the caches score collects next to its own one, lines 289-294
EarlyRequests(cm, sc) ==
  {h \in DOMAIN cm : cm[h].scores = <<>> /\ h # sc /\ cm[h].parent # nullptr}

\* the orders std::sort can leave them in, lines 296-298
EarlyOrders(cm, sc) ==
  { o \in [1 .. Cardinality(EarlyRequests(cm, sc)) -> EarlyRequests(cm, sc)] :
      /\ \A i, j \in DOMAIN o : i # j => o[i] # o[j]
      /\ \A i, j \in DOMAIN o :
           i < j => cm[o[i]].info.bestScoreOffset
                      <= cm[o[j]].info.bestScoreOffset }

\* lines 311-313: the requests behind min_batch_size_ within the threshold
RECURSIVE ScanBatch(_, _, _, _)
ScanBatch(cm, requests, ref_score, i) ==
  IF /\ i + 1 < Len(requests)
     /\ cm[requests[i + 2].final_cache].info.bestScoreOffset <= ref_score
    THEN ScanBatch(cm, requests, ref_score, i + 1)
    ELSE i

\* requests.resize(n) where n is not above the size
Resize(requests, n) == SubSeq(requests, 1, n)

\* lines 307-316
PruneRequests(c, cm, requests) ==
  IF c.min_batch_size_ > 0 /\ Len(requests) > c.min_batch_size_
    THEN LET ref_score ==
               ScorePlus(cm[requests[1].final_cache].info.bestScoreOffset,
                         c.batch_pruning_threshold_)
         IN  IF ref_score # ScoreInf
               THEN Resize(requests,
                           ScanBatch(cm, requests, ref_score,
                                     c.min_batch_size_))
               ELSE requests
    ELSE requests

\* lines 318-320
CutToOptBatch(c, requests) ==
  IF /\ c.min_batch_size_ > 0
     /\ c.opt_batch_size_ > 0
     /\ Len(requests) > c.opt_batch_size_ + c.min_batch_size_
    THEN Resize(requests, c.opt_batch_size_)
    ELSE requests

\* lines 321-323
CutToMaxBatch(c, requests) ==
  IF c.max_batch_size_ > 0 /\ Len(requests) > c.max_batch_size_
    THEN Resize(requests, c.max_batch_size_)
    ELSE requests

\* lines 335-343: the words of a request, the last length ones of the history
\* of its final cache
RequestWords(request) ==
  SubSeq(request.final_cache,
         Len(request.final_cache) - request.length + 1,
         Len(request.final_cache))

\* the network: the state after words is the words consumed, the output after
\* them has num_outputs_ scores
Softmax(consumed) ==
  [ o \in 1 .. num_outputs_ |->
      IF consumed = <<>>
        THEN o
        ELSE (Len(consumed) + consumed[Len(consumed)] + o) % 5 ]

\* lines 384-394: the scores of one request, from its final cache upwards;
\* w is the place in the words of the request
RECURSIVE StoreScores(_, _, _, _, _)
StoreScores(cm, cache, w, request, time) ==
  IF w = 0
    THEN [cm |-> cm, cache |-> cache]
    ELSE StoreScores(
           [cm EXCEPT
              ![cache].last_used = time,
              ![cache].scores =
                 Softmax(cm[request.initial_cache].state[1]
                           \o SubSeq(RequestWords(request), 1, w))],
           cm[cache].parent, w - 1, request, time)

\* lines 382-406 for one request: its scores, and the state of its final cache
StoreRequest(x, request, time) ==
  LET r == The({ StoreScores(x.cm, request.final_cache, request.length,
                             request, t) : t \in {time} })
  IN  [ cm |-> [r.cm EXCEPT
                  ![request.final_cache].state =
                     << x.cm[request.initial_cache].state[1]
                          \o RequestWords(request) >>],
        failed |-> x.failed \/ r.cache # request.initial_cache ]

RECURSIVE StoreRequests(_, _, _)
StoreRequests(x, requests, time) ==
  IF requests = <<>>
    THEN x
    ELSE StoreRequests(StoreRequest(x, Head(requests), time),
                       Tail(requests), time)

\* the request graph filled with the early requests before the own cache
BatchOfEarlyFirst(c, cm, sc, early) ==
  LET all == get_requests(add_cache(AddCaches(EmptyRequestGraph, cm, early),
                                    cm, sc))
  IN  [ all      |-> all,
        requests |-> CutToMaxBatch(c, CutToOptBatch(c,
                                        PruneRequests(c, cm, all))) ]

\* lines 281-323: the requests before and after the three cuts
BatchOf(c, cm, sc, early) ==
  LET all == get_requests(AddCaches(add_cache(EmptyRequestGraph, cm, sc),
                                    cm, early))
  IN  [ all      |-> all,
        requests |-> CutToMaxBatch(c, CutToOptBatch(c,
                                        PruneRequests(c, cm, all))) ]

\* score(hist, w) with the early requests in the order early. outOfRange:
\* run_time_ and run_count_ have max_batch_size_ elements and element
\* requests.size() - 1 is written (lines 411-412)
score(c, cm, time, hist, w, early) ==
  IF cm[hist].scores # <<>>
    THEN [ cm |-> [cm EXCEPT ![hist].last_used = time],
           all |-> <<>>, requests |-> <<>>, forwarded |-> FALSE,
           failed |-> FALSE, outOfRange |-> FALSE,
           value |-> cm[hist].scores[lexicon_mapping_[w + 1] + 1] ]
    ELSE LET b == The({ BatchOf(c, m, hist, early) : m \in {cm} })
             r == The({ StoreRequests([cm |-> cm, failed |-> FALSE], q, time) :
                          q \in {b.requests} })
         IN  [ cm |-> r.cm, all |-> b.all, requests |-> b.requests,
               forwarded |-> TRUE, failed |-> r.failed,
               outOfRange |-> Len(b.requests) > c.max_batch_size_,
               value |-> IF r.cm[hist].scores = <<>>
                           THEN ScoreInf
                           ELSE r.cm[hist].scores[lexicon_mapping_[w + 1] + 1] ]

\* ---- calls of the language model

MaxCaches == 4

MaxTokens == 1

MaxTime == 1

\* min-batch-size, opt-batch-size, max-batch-size, batch-pruning-threshold;
\* a size of 0 switches its cut off
BatchSizes ==
  {<<0, 0, 0, 1>>, <<0, 0, 1, 1>>, <<1, 0, 2, 1>>, <<1, 1, 0, ScoreInf>>}

BatchSettings ==
  { [ min_batch_size_ |-> b[1], opt_batch_size_ |-> b[2],
      max_batch_size_ |-> b[3], batch_pruning_threshold_ |-> b[4],
      free_memory_ |-> TRUE, free_memory_delay_ |-> 0 ] : b \in BatchSizes }

InfoOffsets == {0}

LmInit ==
  /\ cfg \in BatchSettings
  /\ timeFrame_ = 0
  /\ scorer_ = [s \in States |-> 0]
  /\ stateHypotheses = <<>>
  /\ newStateHypotheses = <<>>
  /\ stateHypothesisRecombinationArray = [s \in States |-> 0]
  /\ currentTreeFirstNewStateHypothesis = 0
  /\ activeInstances = <<>>
  /\ instances = <<>>
  /\ activeInstanceMap = <<>>
  /\ instanceCount = 0
  /\ lookaheadCache = {}
  /\ currentLookaheadInstanceStateThreshold_ = 0
  /\ earlyWordEndHypotheses = <<>>
  /\ wordEndHypotheses = <<>>
  /\ traces = <<>>
  /\ traceItems = <<>>
  /\ bestProspect_ = ScoreMax
  /\ bestScore_ = ScoreMax
  /\ minWordEndScore_ = ScoreMax
  /\ globalScoreOffset_ = 0
  /\ hadWordEnd_ = FALSE
  /\ histogramPruned = [applied |-> FALSE, before |-> <<>>]
  /\ sentenceEnd = [call |-> "none"]
  /\ passRanges = <<>>
  /\ stepOrder = <<>>
  /\ emptyFrames = <<>>
  /\ recombineInput = [wehs |-> <<>>, traces |-> <<>>]
  /\ incoming = <<>>
  /\ beamRun = [input |-> <<>>, narrow |-> <<>>, wide |-> <<>>, t1 |-> 0, t2 |-> 0]
  /\ expandRun = [hyp |-> <<>>, fast |-> <<>>, slow |-> <<>>]
  /\ lookaheadRun = <<>>
  /\ pruningRun = [call |-> "none"]
  /\ rootRun = [call |-> "none"]
  /\ cacheMap = (empty_history_ :> EmptyHistoryCache)
  /\ current_time_ = 0
  /\ scoreRun = [call |-> "none"]
  /\ failed = FALSE
  /\ pc = "lm"

lmUnchanged ==
  <<cfg, timeFrame_, scorer_, arenaVars, instanceVars, wordEndVars, traceVars,
    scoreVars, resultVars, passRanges, stepOrder, emptyFrames, recombineInput,
    incoming, beamRun, expandRun, lookaheadRun, pruningRun, rootRun, pc>>

\* the histories the search holds
Histories == DOMAIN cacheMap \ {empty_history_}

\* a history comes with a new cache while there is room for one
Room(ts) == ts \in DOMAIN cacheMap \/ Cardinality(DOMAIN cacheMap) <= MaxCaches

StartHistory ==
  /\ pc = "lm"
  /\ ~failed
  /\ \E r \in {lmStartHistory(cacheMap)} :
       /\ Room(r.history)
       /\ cacheMap' = r.cm
  /\ scoreRun' = [call |-> "none"]
  /\ UNCHANGED <<lmUnchanged, current_time_, failed>>

ExtendedHistory ==
  /\ pc = "lm"
  /\ ~failed
  /\ \E hist \in Histories, w \in Words :
       /\ Len(hist) <= MaxTokens
       /\ \E r \in {lmExtendedHistory(cacheMap, hist, w)} :
            /\ Room(r.history)
            /\ cacheMap' = r.cm
  /\ scoreRun' = [call |-> "none"]
  /\ UNCHANGED <<lmUnchanged, current_time_, failed>>

SetInfo ==
  /\ pc = "lm"
  /\ ~failed
  /\ \E hist \in Histories, offset \in InfoOffsets :
       cacheMap' = setInfo(cacheMap, hist,
                           [bestScoreOffset |-> offset, numStates |-> 0])
  /\ scoreRun' = [call |-> "none"]
  /\ UNCHANGED <<lmUnchanged, current_time_, failed>>

StartFrame ==
  /\ pc = "lm"
  /\ ~failed
  /\ current_time_ < MaxTime
  /\ current_time_' = current_time_ + 1
  /\ cacheMap' = startFrame(cfg, cacheMap, current_time_ + 1)
  /\ scoreRun' = [call |-> "none"]
  /\ UNCHANGED <<lmUnchanged, failed>>

\* score(hist, w); when the write of run_time_ is out of range the call either
\* ends the program there or goes on
Score ==
  /\ pc = "lm"
  /\ ~failed
  /\ \E hist \in Histories, w \in Words :
       \E early \in EarlyOrders(cacheMap, hist) :
         \E r \in {score(cfg, cacheMap, current_time_, hist, w, early)} :
           \E returned \in (IF r.outOfRange THEN BOOLEAN ELSE {TRUE}) :
             /\ cacheMap' = r.cm
             /\ failed' = (r.failed \/ ~returned)
             /\ scoreRun' = [ call |-> "score", hist |-> hist,
                              all |-> r.all,
                              requests |-> r.requests,
                              forwarded |-> r.forwarded,
                              returned |-> returned /\ ~r.failed ]
  /\ UNCHANGED <<lmUnchanged, current_time_>>

LmNext == StartHistory \/ ExtendedHistory \/ SetInfo \/ StartFrame \/ Score

SpecScore == LmInit /\ [][LmNext]_vars

\* ------------------------------------------------------------------- C40

\* the histories a request gives scores to: its final cache and the parents
\* above it, length of them, which ends below its initial cache
RECURSIVE ChainOf(_, _, _)
ChainOf(cm, cache, length) ==
  IF length = 0
    THEN {}
    ELSE {cache} \cup ChainOf(cm, cm[cache].parent, length - 1)

ForwardedChain(i) ==
  ChainOf(cacheMap, scoreRun.requests[i].final_cache,
          scoreRun.requests[i].length)

\* the call of score that has just ended ran the network
ScoreForwarded == scoreRun.call = "score" /\ scoreRun.forwarded

\* a request of the batch that was run has hist on its chain
HistStaysInBatch ==
  \E i \in DOMAIN scoreRun.requests : scoreRun.hist \in ForwardedChain(i)

\* every history on a chain that was run has scores, and the chain ends at
\* the initial cache of its request
ForwardedChainsScored ==
  \A i \in DOMAIN scoreRun.requests :
    /\ \A h \in ForwardedChain(i) : Len(cacheMap[h].scores) = num_outputs_
    /\ scoreRun.requests[i].initial_cache \notin ForwardedChain(i)
    /\ \E h \in ForwardedChain(i) :
         cacheMap[h].parent = scoreRun.requests[i].initial_cache

\* hist has scores when the call returns
HistScoredOnReturn ==
  (scoreRun.call = "score" /\ scoreRun.returned)
    => cacheMap[scoreRun.hist].scores # <<>>

====
